---- MODULE Spec2Model ----
(***************************************************************************)
(* Histopathology laboratory simulation (hpath): the resource kernel, the  *)
(* four stage operators and the nine stage modules, as a state machine.    *)
(*                                                                         *)
(* Every stage function of src/hpath/process/p*.py is transcribed as a     *)
(* program: the sequence of its statements.  A step of a component runs    *)
(* its program from one suspension point (request, hold, end of function)  *)
(* to the next, atomically, as the cooperative scheduler does.             *)
(* Time is counted in resource-allocation intervals (half hours); a hold   *)
(* lasts any duration >= 0, as the task-duration distributions allow.      *)
(* The simulation server that runs the model as a job is a second state    *)
(* machine over variables of its own.                                      *)
(***************************************************************************)
EXTENDS Integers, Sequences, FiniteSets, TLC

VARIABLES
    now,        \* env.now(), in allocation intervals
    cfg,        \* the Config of the run (never changes)
    capacity,   \* resource -> capacity
    claimed,    \* resource -> claimed quantity
    claims,     \* component -> resources it holds, in claim order
    waitq,      \* pending requests, most urgent first, then by arrival
    sched,      \* resource -> position of its ResourceScheduler
    procs,      \* component -> the stage function it runs and where it is
    ready,      \* components scheduled at the current instant, in order
    stores,     \* store name -> queue of [item, priority]
    taken,      \* stage operator -> the item its from_store was given
    batch,      \* BatchingProcess name -> items of the batch being filled
    dict,       \* CollationProcess name -> (parent -> children seen)
    specimens,  \* specimen number -> its attributes and data
    wips,       \* WIP monitor -> value
    fatal,      \* TRUE once a statement has raised an exception
    scenarios,  \* table scenarios of the server: scenario_id -> row
    multis,     \* table multis of the server: its number of rows
    jobs,       \* the RQ jobs, in the order they were enqueued
    pending,    \* the configs a new_multi_rest has still to submit
    utcnow      \* datetime.utcnow() of the server and its worker

\* the simulation
kernel == <<now, cfg, capacity, claimed, claims, waitq, sched, procs, ready,
            stores, taken, batch, dict, specimens, wips, fatal>>

\* the simulation server (restful/server.py, restful/redis.py, simulate.py)
server == <<scenarios, multis, jobs, pending, utcnow>>

vars == <<kernel, server>>

-----------------------------------------------------------------------------
(* Bounds of the model *)

MaxTime == 3          \* the clock stops advancing here
MaxHours == 1         \* the clock of a run through the whole laboratory
SlotsPerDay == 2      \* allocation intervals per day (48 in the program)
DaysPerCycle == 2     \* days per cycle (7 in the program)
MaxCapacity == 2      \* largest allocation of a schedule
NumSpecimens == 2     \* specimens created in a run
MaxBlocks == 2        \* largest block count drawn at cut-up
MaxSlides == 2        \* largest slide count drawn at microtomy
MaxBatchSize == 2     \* largest configured batch size

-----------------------------------------------------------------------------
(* Priority (specimens.py) *)

ROUTINE == 0
CANCER == -1
PRIORITY == -2
URGENT == -3

\* A request written without a priority waits behind every prioritised one.
NoPriority == ROUTINE + 1

Resources ==
    {"booking_in_staff", "bms", "cut_up_assistant", "processing_room_staff",
     "microtomy_staff", "staining_staff", "scanning_staff", "qc_staff",
     "histopathologist", "bone_station", "processing_machine",
     "staining_machine", "coverslip_machine", "scanning_machine_regular",
     "scanning_machine_megas"}

Wips ==
    {"total", "in_reception", "in_cut_up", "in_processing", "in_microtomy",
     "in_staining", "in_labelling", "in_scanning", "in_qc", "in_reporting"}

TimestampKeys ==
    {"reception_start", "reception_end", "cutup_start", "cutup_end",
     "processing_start", "processing_end", "microtomy_start", "microtomy_end",
     "staining_start", "staining_end", "labelling_start", "labelling_end",
     "scanning_start", "scanning_end", "qc_start", "qc_end",
     "report_start", "report_end"}

Unset == -1

-----------------------------------------------------------------------------
(* Entities: specimens, blocks, slides and batches *)

Specimen(s) == <<"S", s, 0, 0>>
Block(s, b) == <<"B", s, b, 0>>
Slide(s, b, l) == <<"L", s, b, l>>
Batch(items) == <<"T", items>>
Operator(name) == <<"P", name>>
Scheduler(r) == <<"R", r>>

NoItem == <<>>

IsBatch(e) == e[1] = "T"
Items(e) == e[2]

\* Block.setup / Slide.setup: parent
Parent(e) == IF e[1] = "L" THEN Block(e[2], e[3]) ELSE Specimen(e[2])

\* Block.setup / Slide.setup: prio is the parent's, hence the specimen's
Prio(e) == specimens[e[2]].prio

-----------------------------------------------------------------------------
(* Queues and stores (salabim Queue) *)

Entry(e, p) == [item |-> e, priority |-> p]

\* Component.enter: at the tail, with the priority of the tail (0 if empty)
QEnter(q, e) ==
    Append(q, Entry(e, IF q = <<>> THEN 0 ELSE q[Len(q)].priority))

\* index of the first entry with a priority larger than p
FirstAfter(q, p) ==
    IF \E i \in 1..Len(q) : q[i].priority > p
    THEN CHOOSE i \in 1..Len(q) :
            /\ q[i].priority > p
            /\ \A k \in 1..(i - 1) : q[k].priority <= p
    ELSE Len(q) + 1

InsertAt(q, i, x) == SubSeq(q, 1, i - 1) \o <<x>> \o SubSeq(q, i, Len(q))

RemoveAt(q, i) == SubSeq(q, 1, i - 1) \o SubSeq(q, i + 1, Len(q))

\* Component.enter_sorted: before the first entry with a larger priority
QEnterSorted(q, e, p) == InsertAt(q, FirstAfter(q, p), Entry(e, p))

-----------------------------------------------------------------------------
(* Resources (salabim Resource).  A machine state m is the record of the   *)
(* variables a stage function can change.                                  *)

HasClaims(m, c) == c \in DOMAIN m.claims

ClaimsOf(m, c) == IF HasClaims(m, c) THEN m.claims[c] ELSE <<>>

SeqToSet(q) == {q[i] : i \in 1..Len(q)}

Holds(m, c, r) == r \in SeqToSet(ClaimsOf(m, c))

\* C1 mutant: a request is honoured when one unit more than the capacity
\* would be in use
Fits_Overbook(m, w) ==
    \A r \in SeqToSet(w.res) : m.claimed[r] <= m.capacity[r]

\* a request is honoured when every resource it names has a free unit
Fits(m, w) == \A r \in SeqToSet(w.res) : m.claimed[r] + 1 <= m.capacity[r]

SetClaims(cl, c, q) ==
    IF q = <<>>
    THEN [x \in (DOMAIN cl) \ {c} |-> cl[x]]
    ELSE [x \in (DOMAIN cl) \cup {c} |-> IF x = c THEN q ELSE cl[x]]

\* claim one unit of every resource of the request, in the order written
Claim(m, c, res) ==
    [m EXCEPT
        !.claimed = [r \in Resources |->
                        IF r \in SeqToSet(res) THEN @[r] + 1 ELSE @[r]],
        !.claims = SetClaims(@, c, ClaimsOf(m, c) \o res)]

\* C4 mutant: when a resource is released or its capacity set, the first
\* pending request that lists it is honoured without looking at what is free
RECURSIVE TryRequest_Blind(_, _, _)
TryRequest_Blind(m, r, i) ==
    IF i > Len(m.waitq) THEN m
    ELSE IF r \in SeqToSet(m.waitq[i].res)
    THEN LET w == m.waitq[i]
         IN  [Claim(m, w.c, w.res) EXCEPT
                !.waitq = RemoveAt(m.waitq, i),
                !.procs[w.c].st = "ready",
                !.ready = Append(m.ready, w.c)]
    ELSE TryRequest_Blind(m, r, i + 1)

\* Resource._tryrequest: offer the free units of r to its requesters, in
\* queue order; an honoured requester is rescheduled at the current time
RECURSIVE TryRequest(_, _, _)
TryRequest(m, r, i) ==
    IF i > Len(m.waitq) THEN m
    ELSE LET w == m.waitq[i] IN
         IF r \in SeqToSet(w.res) /\ Fits(m, w)
         THEN LET m1 == Claim(m, w.c, w.res) IN
              TryRequest([m1 EXCEPT !.waitq = RemoveAt(@, i),
                                    !.procs[w.c].st = "ready",
                                    !.ready = Append(@, w.c)], r, i)
         ELSE TryRequest(m, r, i + 1)

\* position of a new request of priority p among the waiting ones
WaitPos(q, p) ==
    IF \E i \in 1..Len(q) : q[i].priority > p
    THEN CHOOSE i \in 1..Len(q) :
            /\ q[i].priority > p
            /\ \A k \in 1..(i - 1) : q[k].priority <= p
    ELSE Len(q) + 1

\* Component.request: granted at once when it fits, else the component waits
\* in the requesters of every resource it names
DoRequest(m, c, res, p) ==
    LET w == [c |-> c, res |-> res, priority |-> p] IN
    IF Fits(m, w)
    THEN [Claim(m, c, res) EXCEPT !.procs[c].st = "ready",
                                  !.ready = Append(@, c)]
    ELSE [m EXCEPT !.waitq = InsertAt(@, WaitPos(@, p), w),
                   !.procs[c].st = "requesting"]

RemoveFirst(q, x) ==
    LET i == CHOOSE k \in 1..Len(q) : q[k] = x /\ \A j \in 1..(k - 1) : q[j] # x
    IN RemoveAt(q, i)

\* C2 mutant: a released unit stays counted as claimed
ReleaseOne_Keep(m, c, r) ==
    IF ~Holds(m, c, r)
    THEN [m EXCEPT !.fatal = TRUE]
    ELSE [m EXCEPT !.claims = SetClaims(@, c, RemoveFirst(ClaimsOf(m, c), r))]

\* Resource.release of one resource by its holder, then _tryrequest
ReleaseOne(m, c, r) ==
    IF ~Holds(m, c, r)
    THEN [m EXCEPT !.fatal = TRUE]
    ELSE TryRequest(
            [m EXCEPT !.claimed[r] = @ - 1,
                      !.claims = SetClaims(@, c, RemoveFirst(ClaimsOf(m, c), r))],
            r, 1)

\* Component.release(r1, ...): the named resources, in the order written
RECURSIVE DoRelease(_, _, _)
DoRelease(m, c, res) ==
    IF res = <<>> THEN m
    ELSE DoRelease(ReleaseOne(m, c, Head(res)), c, Tail(res))

\* Component.release(): every resource held, in the order claimed
DoReleaseAll(m, c) == DoRelease(m, c, ClaimsOf(m, c))

\* C3 mutant: set_capacity takes the units beyond the new capacity away
\* from the components that claimed last
SetCapacity_Preempt(m, r, n) ==
    LET holders == {c \in DOMAIN m.claims : r \in SeqToSet(m.claims[c])}
    IN  IF m.claimed[r] > n
        THEN [m EXCEPT !.capacity[r] = n,
                       !.claimed[r] = 0,
                       !.claims = [c \in DOMAIN @ \ holders |-> @[c]]]
        ELSE TryRequest([m EXCEPT !.capacity[r] = n], r, 1)

\* Resource.set_capacity: record the capacity, then _tryrequest
SetCapacity(m, r, n) == TryRequest([m EXCEPT !.capacity[r] = n], r, 1)

-----------------------------------------------------------------------------
(* The registry of stage operators (the register functions of p10 .. p90)  *)

Processes ==
    {"arrive_reception", "booking_in", "cutup_start", "cutup_bms",
     "cutup_pool", "cutup_large", "processing_start", "decalc_bone_station",
     "decalc_oven", "processing_assign_queue", "processing_urgents",
     "processing_smalls", "processing_larges", "processing_megas",
     "embed_and_trim", "post_processing", "microtomy", "staining_start",
     "staining_regular", "staining_megas", "post_staining", "labelling",
     "scanning_start", "scanning_regular", "scanning_megas", "post_scanning",
     "qc", "assign_histopath", "report"}

\* BatchingProcess name -> [batch_size, out_process]
BatchingProcesses ==
    [x \in {"batcher.reception_to_cutup", "batcher.cutup_bms_to_processing",
            "batcher.cutup_pool_to_processing",
            "batcher.cutup_large_to_processing",
            "batcher.decalc_bone_station", "batcher.processing_urgents",
            "batcher.processing_smalls", "batcher.processing_larges",
            "batcher.processing_megas", "batcher.processing_to_microtomy",
            "batcher.microtomy_to_staining", "batcher.staining_regular",
            "batcher.staining_megas", "batcher.staining_to_labelling",
            "batcher.labelling_to_scanning", "batcher.scanning_regular",
            "batcher.scanning_megas", "batcher.scanning_to_qc"} |->
     CASE x = "batcher.reception_to_cutup" ->
            [batch_size |-> "deliver_reception_to_cut_up",
             out_process |-> "reception_to_cutup"]
       [] x = "batcher.cutup_bms_to_processing" ->
            [batch_size |-> "deliver_cut_up_to_processing",
             out_process |-> "cutup_bms_to_processing"]
       [] x = "batcher.cutup_pool_to_processing" ->
            [batch_size |-> "deliver_cut_up_to_processing",
             out_process |-> "cutup_pool_to_processing"]
       [] x = "batcher.cutup_large_to_processing" ->
            [batch_size |-> "deliver_cut_up_to_processing",
             out_process |-> "cutup_large_to_processing"]
       [] x = "batcher.decalc_bone_station" ->
            [batch_size |-> "bone_station",
             out_process |-> "decalc_bone_station"]
       [] x = "batcher.processing_urgents" ->
            [batch_size |-> "processing_regular",
             out_process |-> "processing_urgents"]
       [] x = "batcher.processing_smalls" ->
            [batch_size |-> "processing_regular",
             out_process |-> "processing_smalls"]
       [] x = "batcher.processing_larges" ->
            [batch_size |-> "processing_regular",
             out_process |-> "processing_larges"]
       [] x = "batcher.processing_megas" ->
            [batch_size |-> "processing_megas",
             out_process |-> "processing_megas"]
       [] x = "batcher.processing_to_microtomy" ->
            [batch_size |-> "deliver_processing_to_microtomy",
             out_process |-> "processing_to_microtomy"]
       [] x = "batcher.microtomy_to_staining" ->
            [batch_size |-> "deliver_microtomy_to_staining",
             out_process |-> "microtomy_to_staining"]
       [] x = "batcher.staining_regular" ->
            [batch_size |-> "staining_regular",
             out_process |-> "staining_regular"]
       [] x = "batcher.staining_megas" ->
            [batch_size |-> "staining_megas",
             out_process |-> "staining_megas"]
       [] x = "batcher.staining_to_labelling" ->
            [batch_size |-> "deliver_staining_to_labelling",
             out_process |-> "staining_to_labelling"]
       [] x = "batcher.labelling_to_scanning" ->
            [batch_size |-> "deliver_labelling_to_scanning",
             out_process |-> "labelling_to_scanning"]
       [] x = "batcher.scanning_regular" ->
            [batch_size |-> "digital_scanning_regular",
             out_process |-> "scanning_regular"]
       [] x = "batcher.scanning_megas" ->
            [batch_size |-> "digital_scanning_megas",
             out_process |-> "scanning_megas"]
       [] OTHER ->
            [batch_size |-> "deliver_scanning_to_qc",
             out_process |-> "scanning_to_qc"]]

\* the fields of config.BatchSizes
BatchSizeKeys ==
    {BatchingProcesses[x].batch_size : x \in DOMAIN BatchingProcesses}

\* CollationProcess name -> [counter_name, out_process]
CollationProcesses ==
    [x \in {"collate.processing", "collate.staining.slides",
            "collate.staining.blocks", "collate.scanning.slides",
            "collate.scanning.blocks"} |->
     CASE x = "collate.processing" ->
            [counter_name |-> "num_blocks", out_process |-> "post_processing"]
       [] x = "collate.staining.slides" ->
            [counter_name |-> "num_slides",
             out_process |-> "collate.staining.blocks"]
       [] x = "collate.staining.blocks" ->
            [counter_name |-> "num_blocks", out_process |-> "post_staining"]
       [] x = "collate.scanning.slides" ->
            [counter_name |-> "num_slides",
             out_process |-> "collate.scanning.blocks"]
       [] OTHER ->
            [counter_name |-> "num_blocks", out_process |-> "post_scanning"]]

\* DeliveryProcess name -> [runner, out_process]
DeliveryProcesses ==
    [x \in {"reception_to_cutup", "cutup_bms_to_processing",
            "cutup_pool_to_processing", "cutup_large_to_processing",
            "processing_to_microtomy", "microtomy_to_staining",
            "staining_to_labelling", "labelling_to_scanning",
            "scanning_to_qc"} |->
     CASE x = "reception_to_cutup" ->
            [runner |-> "booking_in_staff", out_process |-> "cutup_start"]
       [] x = "cutup_bms_to_processing" ->
            [runner |-> "bms", out_process |-> "processing_start"]
       [] x = "cutup_pool_to_processing" ->
            [runner |-> "cut_up_assistant", out_process |-> "processing_start"]
       [] x = "cutup_large_to_processing" ->
            [runner |-> "cut_up_assistant", out_process |-> "processing_start"]
       [] x = "processing_to_microtomy" ->
            [runner |-> "processing_room_staff", out_process |-> "microtomy"]
       [] x = "microtomy_to_staining" ->
            [runner |-> "microtomy_staff", out_process |-> "staining_start"]
       [] x = "staining_to_labelling" ->
            [runner |-> "staining_staff", out_process |-> "labelling"]
       [] x = "labelling_to_scanning" ->
            [runner |-> "microtomy_staff", out_process |-> "scanning_start"]
       [] OTHER ->
            [runner |-> "scanning_staff", out_process |-> "qc"]]

Batchers == DOMAIN BatchingProcesses
Collators == DOMAIN CollationProcesses
Deliveries == DOMAIN DeliveryProcesses

\* env.processes
Operators == Processes \cup Batchers \cup Collators \cup Deliveries

\* env.completed_specimens
Completed == "completed_specimens"

StoreNames == Operators \cup {Completed}

-----------------------------------------------------------------------------
(* Stores (salabim Store): an item that enters while the store's operator  *)
(* waits in from_store is handed to it at once                             *)

Waiting(m, name) ==
    /\ name \in Operators
    /\ m.taken[name] = NoItem
    /\ Operator(name) \notin DOMAIN m.procs

HandOver(m, name, e) ==
    [m EXCEPT !.taken[name] = e, !.ready = Append(@, Operator(name))]

\* item.enter(store)
PutStore(m, name, e) ==
    IF Waiting(m, name) /\ m.stores[name] = <<>>
    THEN HandOver(m, name, e)
    ELSE [m EXCEPT !.stores[name] = QEnter(@, e)]

\* C32 mutant: the entry stays in the store although the operator of the
\* store waits for one
PutStoreKeyed_Stored(m, name, e) ==
    IF m.stores[name] = <<>>
    THEN [m EXCEPT !.stores[name] = <<Entry(e, 0)>>]
    ELSE [m EXCEPT !.fatal = TRUE]

\* item.enter_sorted(store, item): the key is a component, which cannot be
\* compared with the key of an entry already in the store
PutStoreKeyed(m, name, e) ==
    IF Waiting(m, name) /\ m.stores[name] = <<>>
    THEN HandOver(m, name, e)
    ELSE IF m.stores[name] = <<>>
    THEN [m EXCEPT !.stores[name] = <<Entry(e, 0)>>]
    ELSE [m EXCEPT !.fatal = TRUE]

\* C38 mutant: an item entering the store of an operator that waits for a
\* resource takes the place of the entity in the operator's hands
PutStoreSorted_Preempt(m, name, e, p) ==
    IF Waiting(m, name) /\ m.stores[name] = <<>>
    THEN HandOver(m, name, e)
    ELSE IF /\ Operator(name) \in DOMAIN m.procs
            /\ m.procs[Operator(name)].st = "requesting"
    THEN [m EXCEPT !.procs[Operator(name)].entity = e,
                   !.stores[name] = QEnter(@, m.procs[Operator(name)].entity)]
    ELSE [m EXCEPT !.stores[name] = QEnterSorted(@, e, p)]

\* item.enter_sorted(store, priority)
PutStoreSorted(m, name, e, p) ==
    IF Waiting(m, name) /\ m.stores[name] = <<>>
    THEN HandOver(m, name, e)
    ELSE [m EXCEPT !.stores[name] = QEnterSorted(@, e, p)]

\* self.from_store(in_queue): the head item if there is one, else wait
FromStore(m, name) ==
    IF m.stores[name] # <<>>
    THEN [m EXCEPT !.taken[name] = Head(m.stores[name]).item,
                   !.stores[name] = Tail(@),
                   !.ready = Append(@, Operator(name))]
    ELSE m

-----------------------------------------------------------------------------
(* The statements of a stage function *)

NoOp ==
    [op |-> "nop", res |-> <<>>, prio |-> 0, key |-> "", to |-> "", n |-> 0,
     typ |-> "", ent |-> <<>>, j |-> 0]

Request(res, p) == [NoOp EXCEPT !.op = "request", !.res = res, !.prio = p]
Hold == [NoOp EXCEPT !.op = "hold"]
Release(res) == [NoOp EXCEPT !.op = "release", !.res = res]
ReleaseAll == [NoOp EXCEPT !.op = "release_all"]
WipAdd(key, n) == [NoOp EXCEPT !.op = "wip", !.key = key, !.n = n]
Stamp(key) == [NoOp EXCEPT !.op = "stamp", !.key = key]
AppendBlocks(typ, n) == [NoOp EXCEPT !.op = "blocks", !.typ = typ, !.n = n]
SetNumBlocks(n) == [NoOp EXCEPT !.op = "num_blocks", !.n = n]
SetTotalSlides(n) == [NoOp EXCEPT !.op = "total_slides", !.n = n]
AppendSlides(j, typ, n) ==
    [NoOp EXCEPT !.op = "slides", !.j = j, !.typ = typ, !.n = n]
SetNumSlides(j, n) == [NoOp EXCEPT !.op = "num_slides", !.j = j, !.n = n]
AddTotalSlides(n) == [NoOp EXCEPT !.op = "add_total_slides", !.n = n]
SetData(key, val) == [NoOp EXCEPT !.op = "data", !.key = key, !.typ = val]
Enter(e, to) == [NoOp EXCEPT !.op = "enter", !.ent = e, !.to = to]
EnterSorted(e, to, p) ==
    [NoOp EXCEPT !.op = "enter_sorted", !.ent = e, !.to = to, !.prio = p]

RECURSIVE Flatten(_)
Flatten(ss) == IF Len(ss) = 0 THEN <<>> ELSE Head(ss) \o Flatten(Tail(ss))

\* the statements F(1) ... F(n) of a loop, one after the other
ForEach(n, F(_)) == Flatten([i \in 1..n |-> F(i)])

NewBlock(typ) == [block_type |-> typ, slides |-> <<>>, num_slides |-> Unset]

Repeat(x, n) == [i \in 1..n |-> x]

\* the effect of one statement that does not suspend, run by component c
Apply(m, c, o) ==
    LET s == c[2] IN
    CASE o.op = "release" -> DoRelease(m, c, o.res)
      [] o.op = "release_all" -> DoReleaseAll(m, c)
      [] o.op = "wip" -> [m EXCEPT !.wips[o.key] = @ + o.n]
      [] o.op = "stamp" ->
            [m EXCEPT !.specimens[s].ts[o.key] = now,
                      !.specimens[s].rewritten =
                          @ \/ m.specimens[s].ts[o.key] # Unset]
      [] o.op = "blocks" ->
            [m EXCEPT !.specimens[s].blocks = @ \o Repeat(NewBlock(o.typ), o.n)]
      [] o.op = "num_blocks" -> [m EXCEPT !.specimens[s].num_blocks = o.n]
      [] o.op = "total_slides" -> [m EXCEPT !.specimens[s].total_slides = o.n]
      [] o.op = "slides" ->
            [m EXCEPT !.specimens[s].blocks[o.j].slides = @ \o Repeat(o.typ, o.n)]
      [] o.op = "num_slides" ->
            [m EXCEPT !.specimens[s].blocks[o.j].num_slides = o.n]
      [] o.op = "add_total_slides" ->
            [m EXCEPT !.specimens[s].total_slides = @ + o.n]
      [] o.op = "data" -> [m EXCEPT !.specimens[s].data[o.key] = o.typ]
      [] o.op = "enter" -> PutStore(m, o.to, o.ent)
      [] o.op = "enter_sorted" -> PutStoreSorted(m, o.to, o.ent, o.prio)
      [] OTHER -> m

\* the function returned: the component is no longer a process; the loop of
\* a DeliveryProcess goes back to its from_store
Finish(m, c) ==
    LET m1 == [m EXCEPT !.procs = [x \in (DOMAIN @) \ {c} |-> @[x]]] IN
    IF c[1] = "P" THEN FromStore(m1, c[2]) ELSE m1

\* run component c from statement pc of its program to its next suspension
RECURSIVE Run(_, _, _, _)
Run(m, c, prog, pc) ==
    IF m.fatal THEN m
    ELSE IF pc > Len(prog) THEN Finish(m, c)
    ELSE LET o == prog[pc] IN
         CASE o.op = "request" ->
                DoRequest([m EXCEPT !.procs[c].pc = pc + 1], c, o.res, o.prio)
           [] o.op = "hold" ->
                [m EXCEPT !.procs[c].pc = pc + 1, !.procs[c].st = "holding"]
           [] OTHER -> Run(Apply(m, c, o), c, prog, pc + 1)

-----------------------------------------------------------------------------
(* The stage functions.  d holds the random draws of one call:             *)
(* d.u a category, d.n a count, d.us and d.ns one of each per block.       *)

NoDraw == [u |-> "", n |-> 0, us |-> <<>>, ns |-> <<>>]

Blocks(self) == specimens[self[2]].blocks
NumBlocks(self) == Len(Blocks(self))

\* C16 mutant: receipt asks for the staff at the specimen's own priority
arrive_reception_OwnPriority(self, d) ==
    << WipAdd("total", 1),
       WipAdd("in_reception", 1),
       Stamp("reception_start"),
       SetData("source", d.u),
       Request(<<"booking_in_staff">>, Prio(self)),
       Hold,
       ReleaseAll,
       EnterSorted(self, "booking_in", Prio(self)) >>

\* p10_reception.arrive_reception
arrive_reception(self, d) ==
    << WipAdd("total", 1),
       WipAdd("in_reception", 1),
       Stamp("reception_start"),
       SetData("source", d.u),
       Request(<<"booking_in_staff">>, URGENT),
       Hold,
       ReleaseAll,
       EnterSorted(self, "booking_in", Prio(self)) >>

\* p10_reception.booking_in; d.n is the number of investigations held for
booking_in(self, d) ==
    << Request(<<"booking_in_staff">>, Prio(self)) >>
    \o Repeat(Hold, d.n)
    \o << Hold,
          ReleaseAll,
          Stamp("reception_end"),
          WipAdd("in_reception", -1),
          IF Prio(self) = URGENT
          THEN EnterSorted(self, "reception_to_cutup", URGENT)
          ELSE Enter(self, "batcher.reception_to_cutup") >>

\* p20_cutup.cutup_start; d.u is the cut-up type drawn
cutup_start(self, d) ==
    << WipAdd("in_cut_up", 1),
       Stamp("cutup_start"),
       SetData("cutup_type", d.u),
       EnterSorted(self,
                   CASE d.u = "BMS" -> "cutup_bms"
                     [] d.u = "Pool" -> "cutup_pool"
                     [] OTHER -> "cutup_large",
                   Prio(self)) >>

\* p20_cutup.cutup_bms
cutup_bms(self, d) ==
    << Request(<<"bms">>, Prio(self)),
       Hold,
       AppendBlocks("small surgical", 1),
       SetNumBlocks(1),
       ReleaseAll,
       WipAdd("in_cut_up", -1),
       Stamp("cutup_end"),
       IF Prio(self) = URGENT
       THEN Enter(self, "cutup_bms_to_processing")
       ELSE Enter(self, "batcher.cutup_bms_to_processing") >>

\* p20_cutup.cutup_pool
cutup_pool(self, d) ==
    << Request(<<"cut_up_assistant">>, Prio(self)),
       Hold,
       AppendBlocks("large surgical", 1),
       SetNumBlocks(1),
       ReleaseAll,
       WipAdd("in_cut_up", -1),
       Stamp("cutup_end"),
       IF Prio(self) = URGENT
       THEN EnterSorted(self, "cutup_pool_to_processing", URGENT)
       ELSE Enter(self, "batcher.cutup_pool_to_processing") >>

\* p20_cutup.cutup_large; d.u = "mega" when u01 < prob_mega_blocks,
\* d.n the block count drawn
cutup_large(self, d) ==
    LET block_type == IF Prio(self) = URGENT \/ d.u = "mega"
                      THEN "mega" ELSE "large surgical"
    IN  << Request(<<"cut_up_assistant">>, Prio(self)),
           Hold,
           AppendBlocks(block_type, d.n),
           SetNumBlocks(d.n),
           ReleaseAll,
           WipAdd("in_cut_up", -1),
           Stamp("cutup_end"),
           IF Prio(self) = URGENT
           THEN EnterSorted(self, "cutup_large_to_processing", URGENT)
           ELSE Enter(self, "batcher.cutup_large_to_processing") >>

\* the statements F(x) for x = q[1], q[2], ... one after the other
ForAll(q, F(_)) == Flatten([i \in 1..Len(q) |-> F(q[i])])

BlockOf(e) == specimens[e[2]].blocks[e[3]]

\* specimen.blocks, as components
BlocksOf(self) == [b \in 1..NumBlocks(self) |-> Block(self[2], b)]

\* block.slides, as components
SlidesOf(blk) ==
    [l \in 1..Len(BlockOf(blk).slides) |-> Slide(blk[2], blk[3], l)]

\* C39 mutant: a specimen without blocks is sent on to post_processing
processing_start_Forward(self, d) ==
    LET out_queue == CASE d.u = "bone station" -> "batcher.decalc_bone_station"
                       [] d.u = "decalc oven" -> "decalc_oven"
                       [] OTHER -> "processing_assign_queue"
        EnterBlock(block) == << EnterSorted(block, out_queue, Prio(self)) >>
    IN  << WipAdd("in_processing", 1),
           Stamp("processing_start") >>
        \o (IF d.u = "none" THEN <<>> ELSE << SetData("decalc_type", d.u) >>)
        \o ForAll(BlocksOf(self), EnterBlock)
        \o (IF BlocksOf(self) = <<>>
            THEN << Enter(self, "post_processing") >> ELSE <<>>)

\* p30_processing.processing_start; d.u is the decalc type drawn
processing_start(self, d) ==
    LET out_queue == CASE d.u = "bone station" -> "batcher.decalc_bone_station"
                       [] d.u = "decalc oven" -> "decalc_oven"
                       [] OTHER -> "processing_assign_queue"
        EnterBlock(block) == << EnterSorted(block, out_queue, Prio(self)) >>
    IN  << WipAdd("in_processing", 1),
           Stamp("processing_start") >>
        \o (IF d.u = "none" THEN <<>> ELSE << SetData("decalc_type", d.u) >>)
        \o ForAll(BlocksOf(self), EnterBlock)

\* C5 mutant: at unload the batch asks again for the bone station it
\* still holds, together with the staff
decalc_bone_station_Rerequest(self, d) ==
    LET EnterBlock(block) ==
            << EnterSorted(block, "processing_assign_queue", Prio(block)) >>
    IN  << Request(<<"bms", "bone_station">>, NoPriority),
           Hold,
           Release(<<"bms">>),
           Hold,
           Request(<<"bms", "bone_station">>, NoPriority),
           Hold,
           ReleaseAll >>
        \o ForAll(Items(self), EnterBlock)

\* p30_processing.decalc_bone_station
decalc_bone_station(self, d) ==
    LET EnterBlock(block) ==
            << EnterSorted(block, "processing_assign_queue", Prio(block)) >>
    IN  << Request(<<"bms", "bone_station">>, NoPriority),
           Hold,
           Release(<<"bms">>),
           Hold,
           Request(<<"bms">>, NoPriority),
           Hold,
           ReleaseAll >>
        \o ForAll(Items(self), EnterBlock)

\* C35 mutant: the staff is not requested again for the unloading
decalc_oven_Unstaffed(self, d) ==
    << Request(<<"bms">>, NoPriority),
       Hold,
       Release(<<"bms">>),
       Hold,
       Hold,
       ReleaseAll,
       EnterSorted(self, "processing_assign_queue", Prio(self)) >>

\* p30_processing.decalc_oven
decalc_oven(self, d) ==
    << Request(<<"bms">>, NoPriority),
       Hold,
       Release(<<"bms">>),
       Hold,
       Request(<<"bms">>, NoPriority),
       Hold,
       ReleaseAll,
       EnterSorted(self, "processing_assign_queue", Prio(self)) >>

\* p30_processing.processing_assign_queue: three statements, the last one
\* an if/else that assigns out_queue whatever the first two chose
processing_assign_queue(self, d) ==
    LET block_type == BlockOf(self).block_type
        q1 == IF Prio(self) = URGENT
              THEN "batcher.processing_urgents" ELSE ""
        q2 == IF block_type = "small surgical"
              THEN "batcher.processing_smalls" ELSE q1
        out_queue == IF block_type = "large surgical"
                     THEN "batcher.processing_larges"
                     ELSE "batcher.processing_megas"
    IN  << EnterSorted(self, out_queue, Prio(self)) >>

\* p30_processing.processing_urgents
processing_urgents(self, d) ==
    LET EnterBlock(block) ==
            << EnterSorted(block, "embed_and_trim", Prio(block)) >>
    IN  << Request(<<"processing_room_staff", "processing_machine">>, URGENT),
           Hold,
           Release(<<"processing_room_staff">>),
           Hold,
           Request(<<"processing_room_staff">>, URGENT),
           Hold,
           ReleaseAll >>
        \o ForAll(Items(self), EnterBlock)

\* p30_processing.processing_smalls
processing_smalls(self, d) ==
    LET EnterBlock(block) ==
            << EnterSorted(block, "embed_and_trim", Prio(block)) >>
    IN  << Request(<<"processing_room_staff", "processing_machine">>,
                   NoPriority),
           Hold,
           Release(<<"processing_room_staff">>),
           Hold,
           Request(<<"processing_room_staff">>, NoPriority),
           Hold,
           ReleaseAll >>
        \o ForAll(Items(self), EnterBlock)

\* p30_processing.processing_larges
processing_larges(self, d) ==
    LET EnterBlock(block) ==
            << EnterSorted(block, "embed_and_trim", Prio(block)) >>
    IN  << Request(<<"processing_room_staff", "processing_machine">>,
                   NoPriority),
           Hold,
           Release(<<"processing_room_staff">>),
           Hold,
           Request(<<"processing_room_staff">>, NoPriority),
           Hold,
           ReleaseAll >>
        \o ForAll(Items(self), EnterBlock)

\* C6 mutant: the batch asks for the staff and the machine one after the
\* other instead of together
processing_megas_OneByOne(self, d) ==
    LET EnterBlock(block) ==
            << EnterSorted(block, "embed_and_trim", Prio(block)) >>
    IN  << Request(<<"processing_room_staff">>, NoPriority),
           Request(<<"processing_machine">>, NoPriority),
           Hold,
           Release(<<"processing_room_staff">>),
           Hold,
           Request(<<"processing_room_staff">>, NoPriority),
           Hold,
           ReleaseAll >>
        \o ForAll(Items(self), EnterBlock)

\* p30_processing.processing_megas
processing_megas(self, d) ==
    LET EnterBlock(block) ==
            << EnterSorted(block, "embed_and_trim", Prio(block)) >>
    IN  << Request(<<"processing_room_staff", "processing_machine">>,
                   NoPriority),
           Hold,
           Release(<<"processing_room_staff">>),
           Hold,
           Request(<<"processing_room_staff">>, NoPriority),
           Hold,
           ReleaseAll >>
        \o ForAll(Items(self), EnterBlock)

\* p30_processing.embed_and_trim
embed_and_trim(self, d) ==
    << Request(<<"processing_room_staff">>, NoPriority),
       Hold,
       ReleaseAll,
       Hold,
       Request(<<"processing_room_staff">>, NoPriority),
       Hold,
       ReleaseAll,
       EnterSorted(self, "collate.processing", Prio(self)) >>

\* p30_processing.post_processing
post_processing(self, d) ==
    << WipAdd("in_processing", -1),
       Stamp("processing_end"),
       IF Prio(self) = URGENT
       THEN EnterSorted(self, "processing_to_microtomy", URGENT)
       ELSE Enter(self, "batcher.processing_to_microtomy") >>

\* C18 mutant: the staff is requested once and kept from block to block
microtomy_KeepStaff(self, d) ==
    LET Cut(j) ==
            LET block_type == Blocks(self)[j].block_type
                slide_type ==
                    CASE block_type = "small surgical" ->
                            (IF d.us[j] = "levels" THEN "levels" ELSE "serials")
                      [] block_type = "large surgical" -> "larges"
                      [] OTHER -> "megas"
            IN  << Hold,
                   AppendSlides(j, slide_type, d.ns[j]),
                   SetNumSlides(j, d.ns[j]),
                   AddTotalSlides(d.ns[j]) >>
    IN  << WipAdd("in_microtomy", 1),
           Stamp("microtomy_start"),
           SetTotalSlides(0),
           Request(<<"microtomy_staff">>, Prio(self)) >>
        \o ForEach(NumBlocks(self), Cut)
        \o << ReleaseAll,
              WipAdd("in_microtomy", -1),
              Stamp("microtomy_end"),
              IF Prio(self) = URGENT
              THEN EnterSorted(self, "microtomy_to_staining", URGENT)
              ELSE Enter(self, "batcher.microtomy_to_staining") >>

\* C10 mutant: the running total is overwritten by the count of the block
\* at hand instead of increased by it
microtomy_Overwrite(self, d) ==
    LET Cut(j) ==
            LET block_type == Blocks(self)[j].block_type
                slide_type ==
                    CASE block_type = "small surgical" ->
                            (IF d.us[j] = "levels" THEN "levels" ELSE "serials")
                      [] block_type = "large surgical" -> "larges"
                      [] OTHER -> "megas"
            IN  << Request(<<"microtomy_staff">>, Prio(self)),
                   Hold,
                   AppendSlides(j, slide_type, d.ns[j]),
                   SetNumSlides(j, d.ns[j]),
                   SetTotalSlides(d.ns[j]),
                   ReleaseAll >>
    IN  << WipAdd("in_microtomy", 1),
           Stamp("microtomy_start"),
           SetTotalSlides(0) >>
        \o ForEach(NumBlocks(self), Cut)
        \o << WipAdd("in_microtomy", -1),
              Stamp("microtomy_end"),
              IF Prio(self) = URGENT
              THEN EnterSorted(self, "microtomy_to_staining", URGENT)
              ELSE Enter(self, "batcher.microtomy_to_staining") >>

\* p40_microtomy.microtomy; d.us[j] = "levels" when u01 < prob_microtomy_levels
\* for block j, d.ns[j] the slide count drawn for it
microtomy(self, d) ==
    LET Cut(j) ==
            LET block_type == Blocks(self)[j].block_type
                slide_type ==
                    CASE block_type = "small surgical" ->
                            (IF d.us[j] = "levels" THEN "levels" ELSE "serials")
                      [] block_type = "large surgical" -> "larges"
                      [] OTHER -> "megas"
            IN  << Request(<<"microtomy_staff">>, Prio(self)),
                   Hold,
                   AppendSlides(j, slide_type, d.ns[j]),
                   SetNumSlides(j, d.ns[j]),
                   AddTotalSlides(d.ns[j]),
                   ReleaseAll >>
    IN  << WipAdd("in_microtomy", 1),
           Stamp("microtomy_start"),
           SetTotalSlides(0) >>
        \o ForEach(NumBlocks(self), Cut)
        \o << WipAdd("in_microtomy", -1),
              Stamp("microtomy_end"),
              IF Prio(self) = URGENT
              THEN EnterSorted(self, "microtomy_to_staining", URGENT)
              ELSE Enter(self, "batcher.microtomy_to_staining") >>

\* every slide of the specimen, block by block
AllSlides(self) == Flatten([b \in 1..NumBlocks(self) |-> SlidesOf(Block(self[2], b))])

SlideType(slide) == BlockOf(slide).slides[slide[4]]

\* p50_staining.staining_start
staining_start(self, d) ==
    LET EnterSlide(slide) ==
            << EnterSorted(slide,
                           IF SlideType(slide) = "megas"
                           THEN "batcher.staining_megas"
                           ELSE "batcher.staining_regular",
                           Prio(self)) >>
    IN  << WipAdd("in_staining", 1),
           Stamp("staining_start") >>
        \o ForAll(AllSlides(self), EnterSlide)

\* p50_staining.staining_regular
staining_regular(self, d) ==
    LET EnterSlide(slide) == << Enter(slide, "collate.staining.slides") >>
    IN  << Request(<<"staining_staff", "staining_machine">>, NoPriority),
           Hold,
           Release(<<"staining_staff">>),
           Hold,
           Request(<<"staining_staff">>, NoPriority),
           Hold,
           ReleaseAll,
           Request(<<"staining_staff", "coverslip_machine">>, NoPriority),
           Hold,
           Release(<<"staining_staff">>),
           Hold,
           Request(<<"staining_staff">>, NoPriority),
           Hold,
           ReleaseAll >>
        \o ForAll(Items(self), EnterSlide)

\* p50_staining.staining_megas
staining_megas(self, d) ==
    LET Coverslip(slide) == << Hold, Enter(slide, "collate.staining.slides") >>
    IN  << Request(<<"staining_staff", "staining_machine">>, NoPriority),
           Hold,
           Release(<<"staining_staff">>),
           Hold,
           Request(<<"staining_staff">>, NoPriority),
           Hold,
           Release(<<"staining_machine">>) >>
        \o ForAll(Items(self), Coverslip)
        \o << ReleaseAll >>

\* C11 mutant: post_staining leaves the WIP of staining as it is
post_staining_NoDecrement(self, d) ==
    << Stamp("staining_end"),
       IF Prio(self) = URGENT
       THEN EnterSorted(self, "staining_to_labelling", URGENT)
       ELSE Enter(self, "batcher.staining_to_labelling") >>

\* p50_staining.post_staining
post_staining(self, d) ==
    << WipAdd("in_staining", -1),
       Stamp("staining_end"),
       IF Prio(self) = URGENT
       THEN EnterSorted(self, "staining_to_labelling", URGENT)
       ELSE Enter(self, "batcher.staining_to_labelling") >>

\* p60_labelling.labelling
labelling(self, d) ==
    << WipAdd("in_labelling", 1),
       Stamp("labelling_start"),
       Request(<<"microtomy_staff">>, Prio(self)) >>
    \o Repeat(Hold, Len(AllSlides(self)))
    \o << ReleaseAll,
          WipAdd("in_labelling", -1),
          Stamp("labelling_end"),
          IF Prio(self) = URGENT
          THEN EnterSorted(self, "labelling_to_scanning", URGENT)
          ELSE Enter(self, "batcher.labelling_to_scanning") >>

\* p70_scanning.scanning_start
scanning_start(self, d) ==
    LET EnterSlide(slide) ==
            << Enter(slide,
                     IF SlideType(slide) = "megas"
                     THEN "batcher.scanning_megas"
                     ELSE "batcher.scanning_regular") >>
    IN  << WipAdd("in_scanning", 1),
           Stamp("scanning_start") >>
        \o ForAll(AllSlides(self), EnterSlide)

\* p70_scanning.scanning_regular
scanning_regular(self, d) ==
    LET EnterSlide(slide) == << Enter(slide, "collate.scanning.slides") >>
    IN  << Request(<<"scanning_staff", "scanning_machine_regular">>,
                   NoPriority),
           Hold,
           Release(<<"scanning_staff">>),
           Hold,
           Request(<<"scanning_staff">>, NoPriority),
           Hold,
           ReleaseAll >>
        \o ForAll(Items(self), EnterSlide)

\* p70_scanning.scanning_megas
scanning_megas(self, d) ==
    LET EnterSlide(slide) == << Enter(slide, "collate.scanning.slides") >>
    IN  << Request(<<"scanning_staff", "scanning_machine_megas">>,
                   NoPriority),
           Hold,
           Release(<<"scanning_staff">>),
           Hold,
           Request(<<"scanning_staff">>, NoPriority),
           Hold,
           ReleaseAll >>
        \o ForAll(Items(self), EnterSlide)

\* p70_scanning.post_scanning
post_scanning(self, d) ==
    << WipAdd("in_scanning", -1),
       Stamp("scanning_end"),
       EnterSorted(self, "batcher.scanning_to_qc", Prio(self)) >>

\* p80_qc.qc
qc(self, d) ==
    << WipAdd("in_qc", 1),
       Stamp("qc_start"),
       Request(<<"qc_staff">>, Prio(self)),
       Hold,
       ReleaseAll,
       WipAdd("in_qc", -1),
       Stamp("qc_end"),
       Enter(self, "assign_histopath") >>

\* p90_reporting.assign_histopath
assign_histopath(self, d) ==
    << Request(<<"qc_staff">>, Prio(self)),
       Hold,
       ReleaseAll,
       Enter(self, "report") >>

\* C12 mutant: report leaves the total WIP as it is
report_KeepTotal(self, d) ==
    << WipAdd("in_reporting", 1),
       Stamp("report_start"),
       Request(<<"histopathologist">>, Prio(self)),
       Hold,
       ReleaseAll,
       WipAdd("in_reporting", -1),
       Stamp("report_end"),
       Enter(self, Completed) >>

\* C9 mutant: the two stamps of report change places
report_Swapped(self, d) ==
    << WipAdd("in_reporting", 1),
       Stamp("report_end"),
       Request(<<"histopathologist">>, Prio(self)),
       Hold,
       ReleaseAll,
       WipAdd("in_reporting", -1),
       Stamp("report_start"),
       WipAdd("total", -1),
       Enter(self, Completed) >>

\* p90_reporting.report
report(self, d) ==
    << WipAdd("in_reporting", 1),
       Stamp("report_start"),
       Request(<<"histopathologist">>, Prio(self)),
       Hold,
       ReleaseAll,
       WipAdd("in_reporting", -1),
       Stamp("report_end"),
       WipAdd("total", -1),
       Enter(self, Completed) >>

\* C33 mutant: the runner is requested at the priority of the first item
\* of a batch
DeliveryProcess_process_First(self, entity) ==
    LET out_queue == DeliveryProcesses[self[2]].out_process
        delivery_prio == IF ~IsBatch(entity) THEN Prio(entity)
                         ELSE Prio(Items(entity)[1])
        Unload(item) == << EnterSorted(item, out_queue, Prio(item)) >>
    IN  << Request(<<DeliveryProcesses[self[2]].runner>>, delivery_prio),
           Hold >>
        \o (IF IsBatch(entity)
            THEN ForAll(Items(entity), Unload)
            ELSE Unload(entity))
        \o << Hold,
              ReleaseAll >>

\* C34 mutant: the runner is released before the return
DeliveryProcess_process_Early(self, entity) ==
    LET out_queue == DeliveryProcesses[self[2]].out_process
        delivery_prio == IF ~IsBatch(entity) THEN Prio(entity) ELSE ROUTINE
        Unload(item) == << EnterSorted(item, out_queue, Prio(item)) >>
    IN  << Request(<<DeliveryProcesses[self[2]].runner>>, delivery_prio),
           Hold >>
        \o (IF IsBatch(entity)
            THEN ForAll(Items(entity), Unload)
            ELSE Unload(entity))
        \o << ReleaseAll,
              Hold >>

\* __core.DeliveryProcess.process, one turn of its loop, for the entity
\* taken from its in_queue
DeliveryProcess_process(self, entity) ==
    LET out_queue == DeliveryProcesses[self[2]].out_process
        delivery_prio == IF ~IsBatch(entity) THEN Prio(entity) ELSE ROUTINE
        Unload(item) == << EnterSorted(item, out_queue, Prio(item)) >>
    IN  << Request(<<DeliveryProcesses[self[2]].runner>>, delivery_prio),
           Hold >>
        \o (IF IsBatch(entity)
            THEN ForAll(Items(entity), Unload)
            ELSE Unload(entity))
        \o << Hold,
              ReleaseAll >>

\* the statements of the function a component runs
Program(c, p) ==
    CASE p.fn = "arrive_reception" -> arrive_reception(c, p.d)
      [] p.fn = "booking_in" -> booking_in(c, p.d)
      [] p.fn = "cutup_start" -> cutup_start(c, p.d)
      [] p.fn = "cutup_bms" -> cutup_bms(c, p.d)
      [] p.fn = "cutup_pool" -> cutup_pool(c, p.d)
      [] p.fn = "cutup_large" -> cutup_large(c, p.d)
      [] p.fn = "processing_start" -> processing_start(c, p.d)
      [] p.fn = "decalc_bone_station" -> decalc_bone_station(c, p.d)
      [] p.fn = "decalc_oven" -> decalc_oven(c, p.d)
      [] p.fn = "processing_assign_queue" -> processing_assign_queue(c, p.d)
      [] p.fn = "processing_urgents" -> processing_urgents(c, p.d)
      [] p.fn = "processing_smalls" -> processing_smalls(c, p.d)
      [] p.fn = "processing_larges" -> processing_larges(c, p.d)
      [] p.fn = "processing_megas" -> processing_megas(c, p.d)
      [] p.fn = "embed_and_trim" -> embed_and_trim(c, p.d)
      [] p.fn = "post_processing" -> post_processing(c, p.d)
      [] p.fn = "microtomy" -> microtomy(c, p.d)
      [] p.fn = "staining_start" -> staining_start(c, p.d)
      [] p.fn = "staining_regular" -> staining_regular(c, p.d)
      [] p.fn = "staining_megas" -> staining_megas(c, p.d)
      [] p.fn = "post_staining" -> post_staining(c, p.d)
      [] p.fn = "labelling" -> labelling(c, p.d)
      [] p.fn = "scanning_start" -> scanning_start(c, p.d)
      [] p.fn = "scanning_regular" -> scanning_regular(c, p.d)
      [] p.fn = "scanning_megas" -> scanning_megas(c, p.d)
      [] p.fn = "post_scanning" -> post_scanning(c, p.d)
      [] p.fn = "qc" -> qc(c, p.d)
      [] p.fn = "assign_histopath" -> assign_histopath(c, p.d)
      [] p.fn = "report" -> report(c, p.d)
      [] OTHER -> DeliveryProcess_process(c, p.entity)

-----------------------------------------------------------------------------
(* The state the kernel and the stage functions work on *)

Machine ==
    [capacity |-> capacity, claimed |-> claimed, claims |-> claims,
     waitq |-> waitq, procs |-> procs, ready |-> ready, stores |-> stores,
     taken |-> taken, specimens |-> specimens, wips |-> wips, fatal |-> fatal]

Commit(m) ==
    /\ capacity' = m.capacity
    /\ claimed' = m.claimed
    /\ claims' = m.claims
    /\ waitq' = m.waitq
    /\ procs' = m.procs
    /\ ready' = m.ready
    /\ stores' = m.stores
    /\ taken' = m.taken
    /\ specimens' = m.specimens
    /\ wips' = m.wips
    /\ fatal' = m.fatal

\* the event at the head of the event list is component c's
Current(c) == ~fatal /\ ready # <<>> /\ Head(ready) = c

Popped == [Machine EXCEPT !.ready = Tail(@)]

\* component.activate(process=fn): the component starts fn at this instant
Activate(m, c, fn, d, entity) ==
    [m EXCEPT !.procs = [x \in DOMAIN @ \cup {c} |->
                            IF x = c
                            THEN [fn |-> fn, pc |-> 1, st |-> "ready",
                                  d |-> d, entity |-> entity]
                            ELSE @[x]],
              !.ready = Append(@, c)]

-----------------------------------------------------------------------------
(* The random draws a stage function makes, as the Config allows them *)

Draws(fn, item) ==
    CASE fn = "arrive_reception" ->
            {[NoDraw EXCEPT !.u = u] : u \in cfg.source}
      [] fn = "booking_in" ->
            {[NoDraw EXCEPT !.n = n] : n \in cfg.investigations}
      [] fn = "cutup_start" ->
            {[NoDraw EXCEPT !.u = u] : u \in cfg.cutup_type}
      [] fn = "cutup_large" ->
            {[NoDraw EXCEPT !.u = u, !.n = n] :
                u \in cfg.block_type, n \in cfg.num_blocks}
      [] fn = "processing_start" ->
            {[NoDraw EXCEPT !.u = u] : u \in cfg.decalc_type}
      [] fn = "microtomy" ->
            {[NoDraw EXCEPT !.us = us, !.ns = ns] :
                us \in [1..NumBlocks(item) -> cfg.slide_type],
                ns \in [1..NumBlocks(item) -> cfg.num_slides]}
      [] OTHER -> {NoDraw}

-----------------------------------------------------------------------------
(* Actions *)

\* A component resumes after a request was honoured or it was activated,
\* and runs to its next suspension.
Step(c) ==
    /\ Current(c)
    /\ c \in DOMAIN procs
    /\ procs[c].st = "ready"
    /\ Commit(Run(Popped, c, Program(c, procs[c]), procs[c].pc))
    /\ UNCHANGED <<server, now, cfg, sched, batch, dict>>

\* A hold ends.  No other event is due at this instant.
Resume(c) ==
    /\ ~fatal
    /\ ready = <<>>
    /\ c \in DOMAIN procs
    /\ procs[c].st = "holding"
    /\ Commit(Run(Machine, c, Program(c, procs[c]), procs[c].pc))
    /\ UNCHANGED <<server, now, cfg, sched, batch, dict>>

\* __core.Process.process: one turn of the loop
Process_process(name) ==
    /\ name \in Processes
    /\ Current(Operator(name))
    /\ \E d \in Draws(name, taken[name]) :
          Commit(FromStore(
                    Activate([Popped EXCEPT !.taken[name] = NoItem],
                             taken[name], name, d, NoItem),
                    name))
    /\ UNCHANGED <<server, now, cfg, sched, batch, dict>>

\* C30 mutant: the item taken is registered at the front of the batch
BatchingProcess_process_Front(name) ==
    /\ name \in Batchers
    /\ Current(Operator(name))
    /\ LET items == <<taken[name]>> \o batch[name]
           full == Len(items) = cfg.batch_sizes[BatchingProcesses[name].batch_size]
           m1 == [Popped EXCEPT !.taken[name] = NoItem]
           m2 == IF full
                 THEN PutStore(m1, BatchingProcesses[name].out_process,
                               Batch(items))
                 ELSE m1
       IN  /\ batch' = [batch EXCEPT ![name] = IF full THEN <<>> ELSE items]
           /\ Commit(FromStore(m2, name))
    /\ UNCHANGED <<server, now, cfg, sched, dict>>

\* C36 mutant: a partial batch is sent on when the in_queue is empty
BatchingProcess_process_Flush(name) ==
    /\ name \in Batchers
    /\ Current(Operator(name))
    /\ LET items == Append(batch[name], taken[name])
           full == \/ Len(items) = cfg.batch_sizes[BatchingProcesses[name].batch_size]
                   \/ stores[name] = <<>>
           m1 == [Popped EXCEPT !.taken[name] = NoItem]
           m2 == IF full
                 THEN PutStore(m1, BatchingProcesses[name].out_process,
                               Batch(items))
                 ELSE m1
       IN  /\ batch' = [batch EXCEPT ![name] = IF full THEN <<>> ELSE items]
           /\ Commit(FromStore(m2, name))
    /\ UNCHANGED <<server, now, cfg, sched, dict>>

\* __core.BatchingProcess.process: one item registered, the batch sent on
\* when it is full
BatchingProcess_process(name) ==
    /\ name \in Batchers
    /\ Current(Operator(name))
    /\ LET items == Append(batch[name], taken[name])
           full == Len(items) = cfg.batch_sizes[BatchingProcesses[name].batch_size]
           m1 == [Popped EXCEPT !.taken[name] = NoItem]
           m2 == IF full
                 THEN PutStore(m1, BatchingProcesses[name].out_process,
                               Batch(items))
                 ELSE m1
       IN  /\ batch' = [batch EXCEPT ![name] = IF full THEN <<>> ELSE items]
           /\ Commit(FromStore(m2, name))
    /\ UNCHANGED <<server, now, cfg, sched, dict>>

\* item.parent.data[counter_name]
Counter(name, parent) ==
    IF CollationProcesses[name].counter_name = "num_blocks"
    THEN specimens[parent[2]].num_blocks
    ELSE BlockOf(parent).num_slides

\* C31 mutant: the parent is forwarded when its first child is taken
CollationProcess_process_First(name) ==
    /\ name \in Collators
    /\ Current(Operator(name))
    /\ LET item == taken[name]
           key == Parent(item)
           seen == IF key \in DOMAIN dict[name]
                   THEN Append(dict[name][key], item) ELSE <<item>>
           all == Len(seen) = 1
           m1 == [Popped EXCEPT !.taken[name] = NoItem]
           m2 == IF all
                 THEN PutStoreKeyed(m1, CollationProcesses[name].out_process,
                                    key)
                 ELSE m1
       IN  /\ dict' = [dict EXCEPT ![name] =
                          [k \in (DOMAIN @ \cup {key}) \ (IF all THEN {key} ELSE {})
                              |-> IF k = key THEN seen ELSE @[k]]]
           /\ Commit(FromStore(m2, name))
    /\ UNCHANGED <<server, now, cfg, sched, batch>>

\* __core.CollationProcess.process: one turn of the loop
CollationProcess_process(name) ==
    /\ name \in Collators
    /\ Current(Operator(name))
    /\ LET item == taken[name]
           key == Parent(item)
           seen == IF key \in DOMAIN dict[name]
                   THEN Append(dict[name][key], item) ELSE <<item>>
           all == Len(seen) = Counter(name, key)
           m1 == [Popped EXCEPT !.taken[name] = NoItem]
           m2 == IF all
                 THEN PutStoreKeyed(m1, CollationProcesses[name].out_process,
                                    key)
                 ELSE m1
       IN  /\ dict' = [dict EXCEPT ![name] =
                          [k \in (DOMAIN @ \cup {key}) \ (IF all THEN {key} ELSE {})
                              |-> IF k = key THEN seen ELSE @[k]]]
           /\ Commit(FromStore(m2, name))
    /\ UNCHANGED <<server, now, cfg, sched, batch>>

\* C37 mutant: the DeliveryProcess goes back to its in_queue as soon as the
\* runner is requested
DeliveryProcess_take_Again(name) ==
    /\ name \in Deliveries
    /\ Current(Operator(name))
    /\ taken[name] # NoItem
    /\ LET self == Operator(name)
           m1 == [Popped EXCEPT
                    !.taken[name] = NoItem,
                    !.procs = [x \in DOMAIN @ \cup {self} |->
                                  IF x = self
                                  THEN [fn |-> "DeliveryProcess", pc |-> 1,
                                        st |-> "ready", d |-> NoDraw,
                                        entity |-> taken[name]]
                                  ELSE @[x]]]
       IN  Commit(FromStore(Run(m1, self, Program(self, m1.procs[self]), 1),
                            name))
    /\ UNCHANGED <<server, now, cfg, sched, batch, dict>>

\* __core.DeliveryProcess.process: an entity was taken from the in_queue;
\* the runner is requested
DeliveryProcess_take(name) ==
    /\ name \in Deliveries
    /\ Current(Operator(name))
    /\ Operator(name) \notin DOMAIN procs
    /\ LET self == Operator(name)
           m1 == [Popped EXCEPT
                    !.taken[name] = NoItem,
                    !.procs = [x \in DOMAIN @ \cup {self} |->
                                  IF x = self
                                  THEN [fn |-> "DeliveryProcess", pc |-> 1,
                                        st |-> "ready", d |-> NoDraw,
                                        entity |-> taken[name]]
                                  ELSE @[x]]]
       IN  Commit(Run(m1, self, Program(self, m1.procs[self]), 1))
    /\ UNCHANGED <<server, now, cfg, sched, batch, dict>>

\* C19 mutant: the scheduler stays on the last day of the cycle
NextDay_Stuck(day) == IF day = DaysPerCycle THEN DaysPerCycle ELSE day + 1

\* the next position of a scheduler in its cycle
NextDay(day) == IF day = DaysPerCycle THEN 1 ELSE day + 1

\* C22 mutant: on a day off the scheduler sets the allocation of the first
\* interval instead of 0
ResourceScheduler_process_Allocate(r) ==
    /\ r \in Resources
    /\ Current(Scheduler(r))
    /\ LET schedule == cfg.schedule[r]
           day == sched[r].day
           slot == sched[r].slot
           allocation == schedule.allocation[slot]
       IN  IF slot = 1 /\ schedule.day_flags[day] = 0
           THEN /\ Commit(SetCapacity(Popped, r, allocation))
                /\ sched' = [sched EXCEPT ![r] =
                               [day |-> NextDay(day), slot |-> 1,
                                wake |-> now + SlotsPerDay]]
           ELSE /\ IF allocation # capacity[r] \/ now = 0
                   THEN Commit(SetCapacity(Popped, r, allocation))
                   ELSE Commit(Popped)
                /\ sched' = [sched EXCEPT ![r] =
                               [day |-> IF slot = SlotsPerDay
                                        THEN NextDay(day) ELSE day,
                                slot |-> IF slot = SlotsPerDay
                                         THEN 1 ELSE slot + 1,
                                wake |-> now + 1]]
    /\ UNCHANGED <<server, now, cfg, batch, dict>>

\* __core.ResourceScheduler.process: from one hold to the next
ResourceScheduler_process(r) ==
    /\ r \in Resources
    /\ Current(Scheduler(r))
    /\ LET schedule == cfg.schedule[r]
           day == sched[r].day
           slot == sched[r].slot
           allocation == schedule.allocation[slot]
       IN  IF slot = 1 /\ schedule.day_flags[day] = 0
           THEN /\ Commit(SetCapacity(Popped, r, 0))
                /\ sched' = [sched EXCEPT ![r] =
                               [day |-> NextDay(day), slot |-> 1,
                                wake |-> now + SlotsPerDay]]
           ELSE /\ IF allocation # capacity[r] \/ now = 0
                   THEN Commit(SetCapacity(Popped, r, allocation))
                   ELSE Commit(Popped)
                /\ sched' = [sched EXCEPT ![r] =
                               [day |-> IF slot = SlotsPerDay
                                        THEN NextDay(day) ELSE day,
                                slot |-> IF slot = SlotsPerDay
                                         THEN 1 ELSE slot + 1,
                                wake |-> now + 1]]
    /\ UNCHANGED <<server, now, cfg, batch, dict>>

\* dataclasses.fields(Resources): the resources in creation order
ResourceOrder ==
    <<"booking_in_staff", "bms", "cut_up_assistant", "processing_room_staff",
      "microtomy_staff", "staining_staff", "scanning_staff", "qc_staff",
      "histopathologist", "bone_station", "processing_machine",
      "staining_machine", "coverslip_machine", "scanning_machine_regular",
      "scanning_machine_megas">>

\* env.now() advances by one allocation interval; the schedulers whose hold
\* ends then are due, in creation order.  A scheduler whose schedule is
\* constant finds nothing to change after time 0 and is left out.
Tick ==
    /\ ~fatal
    /\ ready = <<>>
    /\ now < cfg.sim_hours
    /\ now' = now + 1
    /\ LET Due(r) == r \in cfg.scheduled /\ sched[r].wake = now + 1
           due == SelectSeq(ResourceOrder, Due)
       IN  ready' = [i \in 1..Len(due) |-> Scheduler(due[i])]
    /\ UNCHANGED <<server, cfg, capacity, claimed, claims, waitq, sched, procs,
                   stores, taken, batch, dict, specimens, wips, fatal>>

\* specimens.Specimen.setup
NewSpecimen(prio) ==
    [prio |-> prio, blocks |-> <<>>, num_blocks |-> Unset,
     total_slides |-> Unset, ts |-> [k \in TimestampKeys |-> Unset],
     rewritten |-> FALSE,
     data |-> [k \in {"source", "cutup_type", "decalc_type"} |-> ""]]

\* __core.ArrivalGenerator.process creates a specimen (specimens.Specimen
\* .setup), whose process enters it into the in_queue of arrive_reception
Arrive ==
    /\ ~fatal
    /\ ready = <<>>
    /\ Len(specimens) < cfg.arrivals
    /\ \E prio \in cfg.priority :
          Commit(PutStore([Machine EXCEPT
                              !.specimens = Append(@, NewSpecimen(prio))],
                          "arrive_reception",
                          Specimen(Len(specimens) + 1)))
    /\ UNCHANGED <<server, now, cfg, sched, batch, dict>>

-----------------------------------------------------------------------------
(* The state after Model.setup, for a Config taken from a set *)

\* a schedule that allocates n units in every interval of every day
Constant(n) ==
    [day_flags |-> [i \in 1..DaysPerCycle |-> 1],
     allocation |-> [i \in 1..SlotsPerDay |-> n]]

\* one unit of every resource all the time, one specimen, and every draw
\* fixed
BaseConfig ==
    [scheduled |-> {},
     schedule |-> [r \in Resources |-> Constant(1)],
     sim_hours |-> 0,
     arrivals |-> 1,
     priority |-> {CANCER},
     source |-> {"Internal"},
     investigations |-> {0},
     cutup_type |-> {"BMS"},
     block_type |-> {"large surgical"},
     num_blocks |-> {1},
     decalc_type |-> {"none"},
     slide_type |-> {"levels"},
     num_slides |-> {1},
     batch_sizes |-> [k \in BatchSizeKeys |-> 1]]

\* server.main has created the two tables, and nothing was submitted
NoServer ==
    /\ scenarios = <<>>
    /\ multis = 0
    /\ jobs = <<>>
    /\ pending = <<>>
    /\ utcnow = 0

Setup(configs) ==
    /\ now = 0
    /\ cfg \in configs
    /\ capacity = [r \in Resources |-> 1]
    /\ claimed = [r \in Resources |-> 0]
    /\ claims = <<>>
    /\ waitq = <<>>
    /\ sched = [r \in Resources |-> [day |-> 1, slot |-> 1, wake |-> 0]]
    /\ procs = <<>>
    /\ ready = [i \in 1..Len(ResourceOrder) |-> Scheduler(ResourceOrder[i])]
    /\ stores = [x \in StoreNames |-> <<>>]
    /\ taken = [x \in Operators |-> NoItem]
    /\ batch = [x \in Batchers |-> <<>>]
    /\ dict = [x \in Collators |-> <<>>]
    /\ specimens = <<>>
    /\ wips = [k \in Wips |-> 0]
    /\ fatal = FALSE
    /\ NoServer

Components ==
    DOMAIN procs

-----------------------------------------------------------------------------
(* Reception under a changing allocation of booking-in staff: the staff    *)
(* of the later stages are never allocated, so specimens stop at cut-up    *)

\* schedules that allocate every unit in the first interval of a day and
\* b units in the later ones, on every day or on the first day of the
\* cycle only
ReceptionSchedules ==
    {[day_flags |-> [i \in 1..DaysPerCycle |-> IF i = 1 THEN 1 ELSE f],
      allocation |-> [i \in 1..SlotsPerDay |->
                         IF i = 1 THEN MaxCapacity ELSE b]] :
     f \in {0, 1}, b \in 0..MaxCapacity}

ReceptionConfigs ==
    {[BaseConfig EXCEPT
        !.scheduled = {"booking_in_staff"},
        !.schedule = [r \in Resources |->
                        IF r = "booking_in_staff" THEN sch ELSE Constant(0)],
        !.sim_hours = MaxTime,
        !.arrivals = NumSpecimens,
        !.batch_sizes = [k \in BatchSizeKeys |-> MaxBatchSize]] :
     sch \in ReceptionSchedules}

InitReception == Setup(ReceptionConfigs)

NextReception ==
    \/ \E r \in Resources : ResourceScheduler_process(r)
    \/ Tick
    \/ Arrive
    \/ \E name \in Processes : Process_process(name)
    \/ \E name \in Batchers : BatchingProcess_process(name)
    \/ \E name \in Deliveries : DeliveryProcess_take(name)
    \/ \E c \in Components : Step(c)
    \/ \E c \in Components : Resume(c)

SpecReception == InitReception /\ [][NextReception]_vars

-----------------------------------------------------------------------------
(* Reception, cut-up and processing at one instant: specimens of two       *)
(* priorities, every block decalcified in the bone station, one unit of    *)
(* every resource up to the processing room, batches of one; no microtomy  *)
(* staff, so specimens stop at microtomy                                   *)

ProcessingConfigs ==
    {[BaseConfig EXCEPT
        !.schedule = [r \in Resources |->
                        IF r \in {"booking_in_staff", "bms",
                                  "cut_up_assistant", "processing_room_staff",
                                  "bone_station", "processing_machine"}
                        THEN Constant(1) ELSE Constant(0)],
        !.arrivals = NumSpecimens,
        !.priority = {URGENT, CANCER},
        !.decalc_type = {"bone station"}]}

InitProcessing == Setup(ProcessingConfigs)

NextProcessing ==
    \/ \E r \in Resources : ResourceScheduler_process(r)
    \/ Arrive
    \/ \E name \in Processes : Process_process(name)
    \/ \E name \in Batchers : BatchingProcess_process(name)
    \/ \E name \in Collators : CollationProcess_process(name)
    \/ \E name \in Deliveries : DeliveryProcess_take(name)
    \/ \E c \in Components : Step(c)
    \/ \E c \in Components : Resume(c)

SpecProcessing == InitProcessing /\ [][NextProcessing]_vars

-----------------------------------------------------------------------------
(* One specimen through the whole laboratory while the clock runs: one     *)
(* unit of every resource, batches of one                                  *)

PipelineConfigs ==
    {[BaseConfig EXCEPT
        !.sim_hours = MaxHours,
        !.priority = {URGENT, CANCER}]}

InitPipeline == Setup(PipelineConfigs)

NextPipeline ==
    \/ \E r \in Resources : ResourceScheduler_process(r)
    \/ Tick
    \/ Arrive
    \/ \E name \in Processes : Process_process(name)
    \/ \E name \in Batchers : BatchingProcess_process(name)
    \/ \E name \in Collators : CollationProcess_process(name)
    \/ \E name \in Deliveries : DeliveryProcess_take(name)
    \/ \E c \in Components : Step(c)
    \/ \E c \in Components : Resume(c)

SpecPipeline == InitPipeline /\ [][NextPipeline]_vars

-----------------------------------------------------------------------------
(* One specimen from reception to the start of staining at one instant,    *)
(* with every cut-up type and every block and slide count up to the        *)
(* bounds; no staining staff, so its slides stop at the staining machines  *)

MicrotomyConfigs ==
    {[BaseConfig EXCEPT
        !.schedule = [r \in Resources |->
                        IF r \in {"staining_staff", "scanning_staff",
                                  "qc_staff", "histopathologist"}
                        THEN Constant(0) ELSE Constant(1)],
        !.priority = {URGENT, CANCER},
        !.cutup_type = {"BMS", "Pool", "Large specimens"},
        !.block_type = {"mega", "large surgical"},
        !.num_blocks = 0..MaxBlocks,
        !.slide_type = {"levels", "serials"},
        !.num_slides = 0..MaxSlides]}

InitMicrotomy == Setup(MicrotomyConfigs)

SpecMicrotomy == InitMicrotomy /\ [][NextProcessing]_vars

-----------------------------------------------------------------------------
(* Reception with one unit of booking-in staff all the time: specimens of  *)
(* two priorities arrive one after the other; the later stages have no     *)
(* staff                                                                   *)

BookingConfigs ==
    {[BaseConfig EXCEPT
        !.schedule = [r \in Resources |->
                        IF r = "booking_in_staff"
                        THEN Constant(1) ELSE Constant(0)],
        !.arrivals = NumSpecimens + 1,
        !.priority = {URGENT, CANCER}]}

InitBooking == Setup(BookingConfigs)

NextBooking ==
    \/ \E r \in Resources : ResourceScheduler_process(r)
    \/ Arrive
    \/ \E name \in Processes : Process_process(name)
    \/ \E name \in Batchers : BatchingProcess_process(name)
    \/ \E name \in Deliveries : DeliveryProcess_take(name)
    \/ \E c \in Components : Step(c)
    \/ \E c \in Components : Resume(c)

SpecBooking == InitBooking /\ [][NextBooking]_vars

-----------------------------------------------------------------------------
(* Two specimens of several blocks competing for one unit of microtomy     *)
(* staff: large cut-up, no decalcification, the blocks of a specimen       *)
(* processed as one batch, deliveries in batches of one; no staining staff *)

CuttingConfigs ==
    {[BaseConfig EXCEPT
        !.schedule = [r \in Resources |->
                        IF r \in {"staining_staff", "scanning_staff",
                                  "qc_staff", "histopathologist"}
                        THEN Constant(0) ELSE Constant(1)],
        !.arrivals = 2,
        !.cutup_type = {"Large specimens"},
        !.num_blocks = {MaxBlocks},
        !.batch_sizes = [k \in BatchSizeKeys |->
                            IF k \in {"processing_regular", "processing_megas"}
                            THEN MaxBlocks ELSE 1]]}

InitCutting == Setup(CuttingConfigs)

SpecCutting == InitCutting /\ [][NextProcessing]_vars

-----------------------------------------------------------------------------
(* Claims about the resource kernel under the schedulers *)

\* a pending request that lists resource r
Requests(w, r) == r \in SeqToSet(w.res)

Waiters(r) == {i \in 1..Len(waitq) : Requests(waitq[i], r)}

\* component c holds r after the step and did not before it
NewlyHolds(c, r) ==
    /\ c \in DOMAIN claims'
    /\ r \in SeqToSet(claims'[c])
    /\ ~(c \in DOMAIN claims /\ r \in SeqToSet(claims[c]))

\* C1, as stated: at every instant 0 <= claimed <= capacity for every
\* resource, also right after a scheduler has lowered the capacity.
C1_ClaimedWithinCapacity ==
    \A r \in Resources : 0 <= claimed[r] /\ claimed[r] <= capacity[r]

\* C1, amended: claimed is never negative, and it exceeds capacity only
\* through a capacity set below what is held: whenever claimed exceeds
\* capacity after a step, claimed did not grow in that step, and either the
\* step lowered the capacity or the excess was there before.
C1_ExcessOnlyByLowering ==
    /\ [](\A r \in Resources : claimed[r] >= 0)
    /\ [][\A r \in Resources :
            claimed'[r] > capacity'[r] =>
                /\ claimed'[r] <= claimed[r]
                /\ capacity'[r] < capacity[r] \/ claimed[r] > capacity[r]]_vars

\* C1 witness: a scheduler has lowered a capacity below the units in use
C1_Witness ==
    \E r \in Resources : claimed[r] > capacity[r] /\ sched[r].wake > 0

\* C3: a step that lowers a capacity changes nothing else of the resource:
\* the claimed quantities, who holds what, and the holders' progress stay
\* as they were (nobody is preempted).
C3_LoweringChangesOnlyCapacity ==
    [][(\E r \in Resources : capacity'[r] < capacity[r]) =>
          /\ claimed' = claimed
          /\ claims' = claims
          /\ procs' = procs
          /\ waitq' = waitq]_vars

\* C3 witness: a component is still in its hold, with its unit, on a
\* resource whose capacity is now below the claimed quantity
C3_Witness ==
    \E c \in DOMAIN procs : \E r \in Resources :
        /\ procs[c].st = "holding"
        /\ Holds(Machine, c, r)
        /\ capacity[r] < claimed[r]

\* C4: a request is honoured only when the units it asks for are free:
\* after any step in which a component obtained a resource, claimed is
\* within capacity for that resource; so while claimed exceeds a lowered
\* capacity nobody obtains the resource.
C4_GrantOnlyWhenFree ==
    [][\A r \in Resources :
          (\E c \in DOMAIN claims' : NewlyHolds(c, r)) =>
              claimed'[r] <= capacity'[r]]_vars

\* C4 witness: a request is pending on a resource whose capacity was
\* lowered below the claimed quantity
C4_Witness ==
    \E r \in Resources : claimed[r] > capacity[r] /\ Waiters(r) # {}

-----------------------------------------------------------------------------
(* Claims about who holds what *)

\* the resources a component holds after the first k statements of prog,
\* the last request not counted when it is still pending
RECURSIVE HeldAfter(_, _, _, _)
HeldAfter(prog, i, k, held) ==
    IF i > k THEN held
    ELSE LET o == prog[i] IN
         HeldAfter(prog, i + 1, k,
                   CASE o.op = "request" -> held \o o.res
                     [] o.op = "release" ->
                            SelectSeq(held, LAMBDA r : r \notin SeqToSet(o.res))
                     [] o.op = "release_all" -> <<>>
                     [] OTHER -> held)

\* the resources component c holds, by its position in its stage function
HeldBy(c) ==
    LET p == procs[c]
        done == IF p.st = "requesting" THEN p.pc - 2 ELSE p.pc - 1
    IN  HeldAfter(Program(c, p), 1, done, <<>>)

\* the units held, one triple per unit: by the position of each component
\* in its stage function, and by the kernel's record of its claims
UnitsByPosition ==
    UNION {{<<c, i, HeldBy(c)[i]>> : i \in 1..Len(HeldBy(c))} :
           c \in DOMAIN procs}

UnitsByClaims ==
    UNION {{<<c, i, claims[c][i]>> : i \in 1..Len(claims[c])} :
           c \in DOMAIN claims}

\* C2: for every resource, claimed is the number of its units held by the
\* processes: those a stage function has requested and been granted and
\* has not released yet, partial releases (release(resource)) included.
C2_ClaimedIsUnitsHeld ==
    LET byPosition == UnitsByPosition
        byClaims == UnitsByClaims
    IN  \A r \in Resources :
            /\ claimed[r] = Cardinality({u \in byPosition : u[3] = r})
            /\ claimed[r] = Cardinality({u \in byClaims : u[3] = r})

\* C2 witness: a batch is in the bone station after the partial release of
\* the staff, still holding the station
C2_Witness ==
    \E c \in DOMAIN procs :
        /\ procs[c].fn = "decalc_bone_station"
        /\ procs[c].st = "holding"
        /\ ClaimsOf(Machine, c) = <<"bone_station">>
        /\ claimed["bone_station"] = 1

\* C5: a component whose request for several resources is pending holds
\* none of the resources it names: the request is granted as a whole or
\* not at all.
C5_AllOrNothing ==
    \A i \in 1..Len(waitq) :
        Len(waitq[i].res) > 1 =>
            \A r \in SeqToSet(waitq[i].res) : ~Holds(Machine, waitq[i].c, r)

\* C5 witness: a request for two resources is pending although one of the
\* two has a free unit
C5_Witness ==
    \E i \in 1..Len(waitq) :
        /\ Len(waitq[i].res) > 1
        /\ \E r \in SeqToSet(waitq[i].res) : claimed[r] < capacity[r]

\* c waits for a resource that has no free unit and that c2 holds
WaitsFor(c, c2) ==
    \E i \in 1..Len(waitq) :
        /\ waitq[i].c = c
        /\ \E r \in SeqToSet(waitq[i].res) :
              claimed[r] >= capacity[r] /\ Holds(Machine, c2, r)

Blocked == {waitq[i].c : i \in 1..Len(waitq)}

\* C6: there is no circular wait: no set of blocked components in which
\* each waits for a resource held by another of the set.  A batch that
\* keeps its machine while it waits for staff to unload waits for
\* components that are not themselves blocked.
C6_NoCircularWait ==
    \A D \in SUBSET Blocked :
        D # {} => \E c \in D : \A c2 \in D : ~WaitsFor(c, c2)

\* C6 witness: a batch keeps the processing machine while it waits for
\* the staff to unload it
C6_Witness ==
    \E i \in 1..Len(waitq) :
        /\ waitq[i].res = <<"processing_room_staff">>
        /\ Holds(Machine, waitq[i].c, "processing_machine")

-----------------------------------------------------------------------------
(* Claims about the routing of specimens at the exit of a stage *)

\* the entries of a store that are single specimens
SpecimenEntries(name) ==
    {i \in 1..Len(stores[name]) : stores[name][i].item[1] = "S"}

\* C8: at the exit of a stage that is followed by a delivery, an URGENT
\* specimen is put alone into the in_queue of the DeliveryProcess by
\* enter_sorted with key URGENT, and every other specimen goes to the
\* batcher: a single specimen in the in_queue of a DeliveryProcess is
\* URGENT and its entry has priority URGENT.
C8_UrgentSortedIntoDelivery ==
    \A name \in Deliveries :
        \A i \in SpecimenEntries(name) :
            /\ Prio(stores[name][i].item) = URGENT
            /\ stores[name][i].priority = URGENT

\* the items a BatchingProcess has received: those in its in_queue, the
\* one it has just taken, and those of the batch it is filling
Received(b) ==
    {stores[b][i].item : i \in 1..Len(stores[b])}
        \cup (IF taken[b] = NoItem THEN {} ELSE {taken[b]})
        \cup SeqToSet(batch[b])

\* C7: no URGENT specimen ever enters the in_queue of a BatchingProcess,
\* at the exit of reception, cut-up, processing, microtomy, staining,
\* labelling or scanning.
C7_NoUrgentSpecimenInBatcher ==
    \A b \in Batchers :
        \A e \in Received(b) : e[1] = "S" => Prio(e) # URGENT

-----------------------------------------------------------------------------
(* Claims about the data a specimen carries *)

\* the stages of the laboratory in pipeline order
Stages ==
    <<"reception", "cutup", "processing", "microtomy", "staining",
      "labelling", "scanning", "qc", "report">>

StartOf(i) == Stages[i] \o "_start"
EndOf(i) == Stages[i] \o "_end"

\* the stamps the claim orders: the nine starts, then report_end
Milestones == [i \in 1..(Len(Stages) + 1) |->
                  IF i <= Len(Stages) THEN StartOf(i) ELSE "report_end"]

IsCompleted(s) ==
    \E i \in 1..Len(stores[Completed]) : stores[Completed][i].item = Specimen(s)

\* C9: for every specimen the stamps written so far do not decrease in
\* pipeline order (reception_start <= cutup_start <= ... <= report_start
\* <= report_end), the end of a stage is not before its start, no stamp
\* is written twice, and a specimen in completed_specimens carries all
\* nine pairs.
C9_TimestampsInOrder ==
    \A s \in 1..Len(specimens) :
        LET ts == specimens[s].ts IN
        /\ \A i, j \in 1..Len(Milestones) :
              (i < j /\ ts[Milestones[i]] # Unset /\ ts[Milestones[j]] # Unset)
                  => ts[Milestones[i]] <= ts[Milestones[j]]
        /\ \A i \in 1..Len(Stages) :
              ts[EndOf(i)] # Unset =>
                  ts[StartOf(i)] # Unset /\ ts[StartOf(i)] <= ts[EndOf(i)]
        /\ ~specimens[s].rewritten
        /\ IsCompleted(s) => \A k \in TimestampKeys : ts[k] # Unset

\* C9 witness: a completed specimen that was in the laboratory while the
\* clock advanced
C9_Witness ==
    \E s \in 1..Len(specimens) :
        /\ IsCompleted(s)
        /\ specimens[s].ts["reception_start"] < specimens[s].ts["report_end"]

RECURSIVE SumSlides(_)
SumSlides(blocks) ==
    IF blocks = <<>> THEN 0
    ELSE Head(blocks).num_slides + SumSlides(Tail(blocks))

CutUpDone(sp) == sp.ts["cutup_end"] # Unset
MicrotomyDone(sp) == sp.ts["microtomy_end"] # Unset

\* C10: once cut-up has ended len(blocks) = num_blocks; a block has either
\* not been cut or len(slides) = num_slides; once microtomy has ended every
\* block has been cut and total_slides is the sum of num_slides over the
\* blocks.  From then on none of these values changes.
C10_CountsAgree ==
    /\ [](\A s \in 1..Len(specimens) :
            LET sp == specimens[s] IN
            /\ CutUpDone(sp) => Len(sp.blocks) = sp.num_blocks
            /\ \A b \in 1..Len(sp.blocks) :
                  \/ sp.blocks[b].num_slides = Unset /\ sp.blocks[b].slides = <<>>
                  \/ Len(sp.blocks[b].slides) = sp.blocks[b].num_slides
            /\ MicrotomyDone(sp) =>
                  /\ \A b \in 1..Len(sp.blocks) :
                        Len(sp.blocks[b].slides) = sp.blocks[b].num_slides
                  /\ sp.total_slides = SumSlides(sp.blocks))
    /\ [][\A s \in 1..Len(specimens) :
            LET sp == specimens[s] IN
            /\ CutUpDone(sp) =>
                  /\ specimens'[s].num_blocks = sp.num_blocks
                  /\ Len(specimens'[s].blocks) = Len(sp.blocks)
            /\ MicrotomyDone(sp) =>
                  /\ specimens'[s].blocks = sp.blocks
                  /\ specimens'[s].total_slides = sp.total_slides]_vars

\* C10 witness: staining has started on a specimen of several blocks with
\* several slides each
C10_Witness ==
    \E s \in 1..Len(specimens) :
        /\ specimens[s].ts["staining_start"] # Unset
        /\ specimens[s].num_blocks = MaxBlocks
        /\ specimens[s].total_slides = MaxBlocks * MaxSlides

-----------------------------------------------------------------------------
(* Claims about the work-in-progress monitors *)

\* env.wips: the monitor of each stage, in the order of Stages
StageWips ==
    <<"in_reception", "in_cut_up", "in_processing", "in_microtomy",
      "in_staining", "in_labelling", "in_scanning", "in_qc", "in_reporting">>

\* the specimens that have started stage i and not ended it
InStage(i) ==
    {s \in 1..Len(specimens) :
        /\ specimens[s].ts[StartOf(i)] # Unset
        /\ specimens[s].ts[StartOf(i)] <= now
        /\ specimens[s].ts[EndOf(i)] = Unset}

\* C11: at every instant the WIP monitor of each of the nine stages is the
\* number of specimens whose <stage>_start is stamped and whose
\* <stage>_end is not; it is never negative.
C11_StageWipCountsSpecimens ==
    \A i \in 1..Len(Stages) :
        /\ wips[StageWips[i]] = Cardinality(InStage(i))
        /\ wips[StageWips[i]] >= 0

\* C11 witness: the specimen is in labelling, having left staining
C11_Witness ==
    /\ wips["in_labelling"] = 1
    /\ wips["in_staining"] = 0
    /\ \E s \in 1..Len(specimens) : specimens[s].ts["staining_end"] # Unset

\* the specimens that have entered reception
Entered == {s \in 1..Len(specimens) : specimens[s].ts["reception_start"] # Unset}

CompletedSpecimens == {s \in 1..Len(specimens) : IsCompleted(s)}

RECURSIVE SumWips(_)
SumWips(i) == IF i = 0 THEN 0 ELSE wips[StageWips[i]] + SumWips(i - 1)

\* C12: the total WIP is the number of specimens that have entered
\* reception less the number in completed_specimens, and is at least the
\* sum of the nine stage WIPs; it goes up by one in the step in which a
\* specimen enters reception and down by one in the step that puts a
\* specimen into completed_specimens, and changes in no other step.
C12_TotalWip ==
    /\ [](/\ wips["total"] = Cardinality(Entered) - Cardinality(CompletedSpecimens)
          /\ wips["total"] >= SumWips(Len(StageWips)))
    /\ [][\/ /\ wips'["total"] = wips["total"]
             /\ Entered' = Entered
             /\ CompletedSpecimens' = CompletedSpecimens
          \/ /\ wips'["total"] = wips["total"] + 1
             /\ Cardinality(Entered') = Cardinality(Entered) + 1
             /\ CompletedSpecimens' = CompletedSpecimens
          \/ /\ wips'["total"] = wips["total"] - 1
             /\ Entered' = Entered
             /\ Cardinality(CompletedSpecimens') =
                    Cardinality(CompletedSpecimens) + 1]_vars

\* C12 witness: the specimen is in completed_specimens and the total WIP is
\* back to 0
C12_Witness ==
    /\ CompletedSpecimens # {}
    /\ Entered = CompletedSpecimens
    /\ wips["total"] = 0

-----------------------------------------------------------------------------
(* Claims about the routing of blocks to the processing machines *)

\* the batchers of the four processing programs
ProcessingBatchers ==
    {"batcher.processing_urgents", "batcher.processing_smalls",
     "batcher.processing_larges", "batcher.processing_megas"}

\* C13: processing_assign_queue sends every URGENT block to
\* batcher.processing_urgents whatever its type: no URGENT block is
\* received by the batcher of the smalls, the larges or the megas.
C13_UrgentBlocksToUrgents ==
    \A b \in ProcessingBatchers \ {"batcher.processing_urgents"} :
        \A e \in Received(b) : Prio(e) # URGENT

\* the batcher the claim gives to a block type
BatcherOfType(block_type) ==
    CASE block_type = "small surgical" -> "batcher.processing_smalls"
      [] block_type = "large surgical" -> "batcher.processing_larges"
      [] OTHER -> "batcher.processing_megas"

\* C14: processing_assign_queue sends every block that is not URGENT to
\* the batcher of its type: small surgical to the smalls, large surgical
\* to the larges, mega to the megas; a block is with one batcher only.
C14_BlocksByType ==
    /\ \A b \in ProcessingBatchers :
          \A e \in Received(b) :
              Prio(e) # URGENT => b = BatcherOfType(BlockOf(e).block_type)
    /\ \A b1, b2 \in ProcessingBatchers :
          b1 # b2 => Received(b1) \cap Received(b2) = {}

-----------------------------------------------------------------------------
(* Claims about the blocks cut-up creates *)

\* the specimens that cutup_large has cut
CutLarge ==
    {s \in 1..Len(specimens) :
        /\ specimens[s].data["cutup_type"] = "Large specimens"
        /\ CutUpDone(specimens[s])}

BlockTypes(s) ==
    {specimens[s].blocks[b].block_type : b \in 1..Len(specimens[s].blocks)}

\* C15: the blocks cutup_large creates for an URGENT specimen are all
\* large surgical, never mega; those it creates for another specimen are
\* all mega or all large surgical.
C15_UrgentLargeCutUpNeverMega ==
    \A s \in CutLarge :
        IF specimens[s].prio = URGENT
        THEN BlockTypes(s) \subseteq {"large surgical"}
        ELSE \/ BlockTypes(s) \subseteq {"mega"}
             \/ BlockTypes(s) \subseteq {"large surgical"}

-----------------------------------------------------------------------------
(* Claims about the order in which requests are honoured *)

\* the pending requests made by function fn
WaitingIn(fn) == {i \in 1..Len(waitq) : procs[waitq[i].c].fn = fn}

\* C16: arrive_reception asks for booking-in staff at priority URGENT, so
\* while a request of arrive_reception is pending no request of booking_in
\* for a specimen that is not URGENT is honoured before it: a step that
\* gives the staff to such a booking_in gives it to every pending
\* arrive_reception too.
C16_ReceiptBeforeBookingIn ==
    /\ [](\A i \in WaitingIn("arrive_reception") : waitq[i].priority = URGENT)
    /\ [][\A i \in WaitingIn("booking_in") :
             (Prio(waitq[i].c) # URGENT
                /\ NewlyHolds(waitq[i].c, "booking_in_staff"))
             => \A j \in WaitingIn("arrive_reception") :
                   NewlyHolds(waitq[j].c, "booking_in_staff")]_vars

\* C16 witness: a request of arrive_reception and a request of booking_in
\* for a specimen that is not URGENT are pending together, the former ahead
C16_Witness ==
    \E i \in WaitingIn("arrive_reception") :
        \E j \in WaitingIn("booking_in") :
            /\ Prio(waitq[j].c) # URGENT
            /\ Prio(waitq[i].c) # URGENT
            /\ waitq[i].priority = URGENT
            /\ i < j

\* specimen s has been given the staff for its booking_in step
BookingInStarted(s) ==
    \/ specimens[s].ts["reception_end"] # Unset
    \/ /\ Specimen(s) \in DOMAIN procs
       /\ procs[Specimen(s)].fn = "booking_in"
       /\ Holds(Machine, Specimen(s), "booking_in_staff")

\* C17: with one unit of booking-in staff, a first specimen that is not
\* URGENT and a second, URGENT one that arrives before the first is given
\* the staff for booking_in (at 0.01 h, during the first one's
\* receive-and-sort), the URGENT specimen starts its booking_in step
\* before the first one does: when the first one is given the staff for
\* booking_in the URGENT one has had it for booking_in already.
C17_UrgentBookedInFirst ==
    [][(/\ Len(specimens) = 2
        /\ specimens[1].prio # URGENT
        /\ specimens[2].prio = URGENT
        /\ 2 \in Entered
        /\ Specimen(1) \in DOMAIN procs'
        /\ procs'[Specimen(1)].fn = "booking_in"
        /\ NewlyHolds(Specimen(1), "booking_in_staff"))
       => BookingInStarted(2)]_vars

\* component c, holding the microtomy staff for one block, goes on to the
\* next block of its specimen in this step
NextBlock(c) ==
    /\ c \in DOMAIN procs /\ c \in DOMAIN procs'
    /\ procs[c].fn = "microtomy" /\ procs'[c].fn = "microtomy"
    /\ procs[c].st = "holding"
    /\ Holds(Machine, c, "microtomy_staff")
    /\ procs'[c].pc > procs[c].pc

\* C18: when a specimen in microtomy releases the staff after a block and
\* requests it again for its next block, the unit goes first to the
\* requests already pending, the first in the queue first: after the step
\* the first of them holds the staff, and the releasing specimen holds it
\* again only if no request that was pending is still pending.
C18_ReleasedUnitToWaitersFirst ==
    [][\A c \in DOMAIN procs :
          (NextBlock(c) /\ Waiters("microtomy_staff") # {})
          => LET first == CHOOSE i \in Waiters("microtomy_staff") :
                             \A k \in Waiters("microtomy_staff") : i <= k
             IN  /\ NewlyHolds(waitq[first].c, "microtomy_staff")
                 /\ (c \in DOMAIN claims'
                        /\ "microtomy_staff" \in SeqToSet(claims'[c]))
                    => \A i \in Waiters("microtomy_staff") :
                          NewlyHolds(waitq[i].c, "microtomy_staff")]_vars

\* C18 witness: a specimen that has cut a block waits for the staff to cut
\* its next one, and another component holds the staff
C18_Witness ==
    \E i \in Waiters("microtomy_staff") :
        /\ procs[waitq[i].c].fn = "microtomy"
        /\ Len(specimens[waitq[i].c[2]].blocks[1].slides) > 0
        /\ claimed["microtomy_staff"] = 1

-----------------------------------------------------------------------------
(* The scheduler of the booking-in staff through one cycle of days and     *)
(* into the next, under every schedule up to the bounds, while one         *)
(* specimen is received                                                    *)

\* the intervals of one cycle of days
CycleLength == DaysPerCycle * SlotsPerDay

ScheduleConfigs ==
    {[BaseConfig EXCEPT
        !.scheduled = {"booking_in_staff"},
        !.schedule = [r \in Resources |->
                        IF r = "booking_in_staff"
                        THEN [day_flags |-> df, allocation |-> al]
                        ELSE Constant(0)],
        !.sim_hours = CycleLength + 1] :
     df \in [1..DaysPerCycle -> {0, 1}],
     al \in [1..SlotsPerDay -> 0..MaxCapacity]}

InitSchedule == Setup(ScheduleConfigs)

NextSchedule ==
    \/ \E r \in Resources : ResourceScheduler_process(r)
    \/ Tick
    \/ Arrive
    \/ \E name \in Processes : Process_process(name)
    \/ \E c \in Components : Step(c)
    \/ \E c \in Components : Resume(c)

SpecSchedule == InitSchedule /\ [][NextSchedule]_vars

\* the capacity the schedule of resource r gives at time t
Scheduled(r, t) ==
    LET schedule == cfg.schedule[r]
    IN  IF schedule.day_flags[((t \div SlotsPerDay) % DaysPerCycle) + 1] = 0
        THEN 0
        ELSE schedule.allocation[(t % SlotsPerDay) + 1]

\* C19: at every instant, once the scheduler of a resource has taken its
\* step of that instant, the capacity of the resource is 0 on a day whose
\* flag is 0 and the allocation of the current interval of the day
\* otherwise; the day is found from the clock alone, so every day lasts as
\* long as every other and the cycle of days repeats.
C19_CapacityFollowsSchedule ==
    \A r \in cfg.scheduled :
        Scheduler(r) \notin SeqToSet(ready) => capacity[r] = Scheduled(r, now)

\* C19 witness: the first interval of the second cycle, after a day off at
\* the end of the first cycle, with the scheduler's step taken and staff
\* allocated again
C19_Witness ==
    /\ now = CycleLength
    /\ cfg.schedule["booking_in_staff"].day_flags[DaysPerCycle] = 0
    /\ Scheduler("booking_in_staff") \notin SeqToSet(ready)
    /\ capacity["booking_in_staff"] = MaxCapacity

-----------------------------------------------------------------------------
(* One specimen through the whole laboratory while the clock runs, the     *)
(* processing room staff being off or on duty on the first day             *)

SundayConfigs ==
    {[BaseConfig EXCEPT
        !.scheduled = {"processing_room_staff"},
        !.schedule = [r \in Resources |->
                        IF r = "processing_room_staff"
                        THEN [day_flags |-> [i \in 1..DaysPerCycle |->
                                                IF i = 1 THEN f ELSE 1],
                              allocation |-> [i \in 1..SlotsPerDay |-> 1]]
                        ELSE Constant(1)],
        !.sim_hours = MaxHours,
        !.priority = {URGENT, CANCER}] :
     f \in {0, 1}}

InitSunday == Setup(SundayConfigs)

SpecSunday == InitSunday /\ [][NextPipeline]_vars

\* C20: no specimen has a processing_start timestamp inside a day for which
\* the schedule of the processing room staff has flag 0.
C20_NoProcessingStartOnDayOff ==
    \A s \in 1..Len(specimens) :
        specimens[s].ts["processing_start"] # Unset
        => cfg.schedule["processing_room_staff"].day_flags[
               ((specimens[s].ts["processing_start"] \div SlotsPerDay)
                   % DaysPerCycle) + 1] # 0

-----------------------------------------------------------------------------
(* One specimen from reception to the end of processing while the clock    *)
(* runs: the processing room staff on duty on the first day of the cycle   *)
(* and off on the others, no microtomy staff                               *)

WeekendConfigs ==
    {[BaseConfig EXCEPT
        !.scheduled = {"processing_room_staff"},
        !.schedule = [r \in Resources |->
                        IF r = "processing_room_staff"
                        THEN [day_flags |-> [i \in 1..DaysPerCycle |->
                                                IF i = 1 THEN 1 ELSE 0],
                              allocation |-> [i \in 1..SlotsPerDay |-> 1]]
                        ELSE IF r \in {"booking_in_staff", "bms",
                                       "cut_up_assistant",
                                       "processing_machine"}
                        THEN Constant(1) ELSE Constant(0)],
        !.sim_hours = MaxTime,
        !.priority = {URGENT, CANCER}]}

InitWeekend == Setup(WeekendConfigs)

SpecWeekend == InitWeekend /\ [][NextPipeline]_vars

\* the day flag of resource r on the day of time t
DayFlag(r, t) ==
    cfg.schedule[r].day_flags[((t \div SlotsPerDay) % DaysPerCycle) + 1]

\* C21: on a day for which the processing room staff has flag 0, once the
\* scheduler has set the capacity to 0, the WIP monitor of processing
\* never decreases.
C21_ProcessingWipGrowsOnDayOff ==
    [][(/\ DayFlag("processing_room_staff", now) = 0
        /\ capacity["processing_room_staff"] = 0)
       => wips'["in_processing"] >= wips["in_processing"]]_vars

-----------------------------------------------------------------------------
(* The booking-in staff on duty every day or never, while one specimen is *)
(* received; the event loop always dispatches the next event               *)

ClosedConfigs ==
    {[BaseConfig EXCEPT
        !.scheduled = {"booking_in_staff"},
        !.schedule = [r \in Resources |->
                        IF r = "booking_in_staff"
                        THEN [day_flags |-> [i \in 1..DaysPerCycle |-> f],
                              allocation |-> [i \in 1..SlotsPerDay |-> a]]
                        ELSE Constant(0)],
        !.sim_hours = CycleLength + 1] :
     f \in {0, 1}, a \in 1..MaxCapacity}

InitClosed == Setup(ClosedConfigs)

SpecClosed == InitClosed /\ [][NextSchedule]_vars /\ WF_vars(NextSchedule)

\* every day flag of resource r is 0
AllDaysOff(r) ==
    \A i \in 1..DaysPerCycle : cfg.schedule[r].day_flags[i] = 0

\* C22: when every day flag of the booking-in staff is 0, then after the
\* scheduler's first step at time 0 the capacity is 0 at every instant, no
\* unit is ever claimed, a request for the staff once pending stays
\* pending, and the clock still reaches the end of the run.
C22_AllDaysOff ==
    /\ [](AllDaysOff("booking_in_staff")
          => /\ claimed["booking_in_staff"] = 0
             /\ (now = 0 /\ Scheduler("booking_in_staff") \in SeqToSet(ready))
                \/ capacity["booking_in_staff"] = 0)
    /\ [][AllDaysOff("booking_in_staff")
          => \A i \in Waiters("booking_in_staff") :
                \E j \in DOMAIN waitq' : waitq'[j] = waitq[i]]_vars
    /\ (AllDaysOff("booking_in_staff") => <>(now = cfg.sim_hours))

\* C22 witness: the run has ended with the specimen still waiting for the
\* staff that is never on duty
C22_Witness ==
    /\ AllDaysOff("booking_in_staff")
    /\ now = cfg.sim_hours
    /\ Waiters("booking_in_staff") # {}

\* C24: in a run with sim_hours = 0 no event is dispatched: every
\* scheduler is still due for its first step and every resource has the
\* capacity it was created with.
C24_NoEventDispatched ==
    cfg.sim_hours = 0
    => /\ ready = [i \in 1..Len(ResourceOrder) |->
                      Scheduler(ResourceOrder[i])]
       /\ \A r \in Resources : capacity[r] = 1

-----------------------------------------------------------------------------
(* One URGENT specimen alone in the laboratory, one unit of every          *)
(* resource, every batch size the same number up to the bound, no limit on *)
(* the length of the run; the event loop always dispatches the next event  *)

UrgentConfigs ==
    {[BaseConfig EXCEPT
        !.priority = {URGENT},
        !.batch_sizes = [k \in BatchSizeKeys |-> n]] :
     n \in 1..MaxBatchSize}

InitUrgent == Setup(UrgentConfigs)

SpecUrgent == InitUrgent /\ [][NextProcessing]_vars /\ WF_vars(NextProcessing)

\* C25: the URGENT specimen eventually enters completed_specimens, whatever
\* the batch sizes.
C25_UrgentSpecimenCompletes ==
    <>(CompletedSpecimens # {})

-----------------------------------------------------------------------------
(* Reception with one unit of booking-in staff and every batch size the    *)
(* same number up to the bound: specimens of two priorities are batched    *)
(* for the delivery to cut-up                                              *)

BatchingConfigs ==
    {[BaseConfig EXCEPT
        !.schedule = [r \in Resources |->
                        IF r = "booking_in_staff"
                        THEN Constant(1) ELSE Constant(0)],
        !.arrivals = NumSpecimens + 1,
        !.priority = {URGENT, CANCER},
        !.batch_sizes = [k \in BatchSizeKeys |-> n]] :
     n \in 1..MaxBatchSize}

InitBatching == Setup(BatchingConfigs)

SpecBatching == InitBatching /\ [][NextBooking]_vars

\* the batch size of a BatchingProcess
BatchSizeOf(name) == cfg.batch_sizes[BatchingProcesses[name].batch_size]

\* C30: a BatchingProcess registers the items in the order in which it
\* takes them from the head of its input store; the batch being filled is
\* always short of batch_size items, and with the item that completes it
\* the batch of exactly batch_size items goes to the tail of the input
\* store of out_process (or straight to out_process when that is waiting),
\* after which a new batch is started; no item is taken or handed on
\* otherwise.
C30_BatchesExactAndInOrder ==
    /\ [](\A name \in Batchers : Len(batch[name]) < BatchSizeOf(name))
    /\ [][\A name \in Batchers :
            Current(Operator(name))
            => LET items == Append(batch[name], taken[name])
                   out == BatchingProcesses[name].out_process
                   q == stores'[out]
               IN  /\ IF Len(items) = BatchSizeOf(name)
                      THEN /\ batch'[name] = <<>>
                           /\ \/ /\ q # <<>>
                                 /\ q[Len(q)].item = Batch(items)
                                 /\ SubSeq(q, 1, Len(q) - 1) = stores[out]
                                 /\ taken'[out] = taken[out]
                              \/ /\ q = <<>> /\ stores[out] = <<>>
                                 /\ taken'[out] = Batch(items)
                      ELSE /\ batch'[name] = items
                           /\ q = stores[out]
                           /\ taken'[out] = taken[out]
                   /\ IF stores[name] # <<>>
                      THEN /\ taken'[name] = Head(stores[name]).item
                           /\ stores'[name] = Tail(stores[name])
                      ELSE /\ taken'[name] = NoItem
                           /\ stores'[name] = <<>>]_vars

\* C30 witness: a batch of more than one item is being delivered, and the
\* next batch is being filled
C30_Witness ==
    \E name \in Batchers :
        LET out == Operator(BatchingProcesses[name].out_process)
        IN  /\ BatchSizeOf(name) > 1
            /\ out \in DOMAIN procs
            /\ procs[out].fn = "DeliveryProcess"
            /\ IsBatch(procs[out].entity)
            /\ Len(Items(procs[out].entity)) = BatchSizeOf(name)
            /\ batch[name] # <<>>

-----------------------------------------------------------------------------
(* The arrival generators: each ArrivalGenerator starts, hour by hour, a   *)
(* sub-generator that creates specimens during that hour.  No staff is on  *)
(* duty, so the specimens wait at reception.                               *)

\* util.ARR_RATE_INTERVAL_HOURS in allocation intervals
\* (util.RESOURCE_ALLOCATION_INTERVAL_HOURS)
SlotsPerHour == 2

\* the hours of an arrival schedule (168 in the program)
HoursPerCycle == 2

\* Model.setup: the generators in creation order, with their cls_args
GeneratorOrder ==
    <<"Arrival Generator (cancer)", "Arrival Generator (non-cancer)">>

ArrivalGenerators ==
    [g \in SeqToSet(GeneratorOrder) |-> [cancer |-> TRUE]]

Generator(g) == <<"G", g>>
ComponentGenerator(g, at) == <<"C", g, at>>

\* Specimen.setup: the values of the CDF the priority is sampled from
PriorityCdf(cancer) ==
    {URGENT, PRIORITY, IF cancer THEN CANCER ELSE ROUTINE}

\* C23 mutant: the sub-generator of an hour lasts two hours
ArrivalGenerator_process_TwoHours(g) ==
    /\ g \in DOMAIN ArrivalGenerators
    /\ Current(Generator(g))
    /\ LET self == procs[Generator(g)]
           rate == cfg.rates[g][self.pc]
           sub == ComponentGenerator(g, now)
           next == [self EXCEPT
                      !.pc = IF @ = HoursPerCycle THEN 1 ELSE @ + 1,
                      !.wake = now + SlotsPerHour]
       IN  procs' = [x \in DOMAIN procs \cup
                           (IF rate > 0 THEN {sub} ELSE {}) |->
                        IF x = Generator(g) THEN next
                        ELSE IF x = sub /\ rate > 0
                        THEN [fn |-> "ComponentGenerator",
                              st |-> "generator",
                              till |-> now + 2 * SlotsPerHour]
                        ELSE procs[x]]
    /\ ready' = Tail(ready)
    /\ UNCHANGED <<server, now, cfg, capacity, claimed, claims, waitq, sched, stores,
                   taken, batch, dict, specimens, wips, fatal>>

\* ArrivalGenerator.process: one turn of the loop over the hourly rates
ArrivalGenerator_process(g) ==
    /\ g \in DOMAIN ArrivalGenerators
    /\ Current(Generator(g))
    /\ LET self == procs[Generator(g)]
           rate == cfg.rates[g][self.pc]
           sub == ComponentGenerator(g, now)
           next == [self EXCEPT
                      !.pc = IF @ = HoursPerCycle THEN 1 ELSE @ + 1,
                      !.wake = now + SlotsPerHour]
       IN  procs' = [x \in DOMAIN procs \cup
                           (IF rate > 0 THEN {sub} ELSE {}) |->
                        IF x = Generator(g) THEN next
                        ELSE IF x = sub /\ rate > 0
                        THEN [fn |-> "ComponentGenerator",
                              st |-> "generator",
                              till |-> now + SlotsPerHour]
                        ELSE procs[x]]
    /\ ready' = Tail(ready)
    /\ UNCHANGED <<server, now, cfg, capacity, claimed, claims, waitq, sched, stores,
                   taken, batch, dict, specimens, wips, fatal>>

\* salabim.ComponentGenerator with iat and duration: a Specimen is created
\* (Specimen.setup) while the duration lasts, and its process enters it
\* into the in_queue of arrive_reception
ComponentGenerator_process(g) ==
    /\ ~fatal
    /\ ready = <<>>
    /\ Len(specimens) < cfg.arrivals
    /\ \E c \in DOMAIN procs :
          /\ procs[c].fn = "ComponentGenerator"
          /\ c[2] = g
          /\ now < procs[c].till
          /\ \E prio \in PriorityCdf(ArrivalGenerators[g].cancer) :
                Commit(PutStore([Machine EXCEPT
                                    !.specimens =
                                        Append(@, NewSpecimen(prio) @@
                                                  [generator |-> c])],
                                "arrive_reception",
                                Specimen(Len(specimens) + 1)))
    /\ UNCHANGED <<server, now, cfg, sched, batch, dict>>

\* env.now() advances by one allocation interval: the sub-generators whose
\* duration is over end, and the generators and the schedulers whose hold
\* ends are due, in creation order
TickArrivals ==
    /\ ~fatal
    /\ ready = <<>>
    /\ now < cfg.sim_hours
    /\ now' = now + 1
    /\ LET over == {c \in DOMAIN procs :
                       /\ procs[c].fn = "ComponentGenerator"
                       /\ procs[c].till <= now + 1}
           DueG(g) == procs[Generator(g)].wake = now + 1
           DueR(r) == r \in cfg.scheduled /\ sched[r].wake = now + 1
           dueG == SelectSeq(GeneratorOrder, DueG)
           dueR == SelectSeq(ResourceOrder, DueR)
       IN  /\ procs' = [x \in DOMAIN procs \ over |-> procs[x]]
           /\ ready' = [i \in 1..Len(dueG) |-> Generator(dueG[i])]
                       \o [i \in 1..Len(dueR) |-> Scheduler(dueR[i])]
    /\ UNCHANGED <<server, cfg, capacity, claimed, claims, waitq, sched, stores,
                   taken, batch, dict, specimens, wips, fatal>>

\* the cancer generator has the same rate in every hour, 0 or positive, and
\* the non-cancer generator any pattern of zero and positive rates
ArrivalConfigs ==
    {[rates |-> [g \in DOMAIN ArrivalGenerators |->
                    IF g = "Arrival Generator (cancer)"
                    THEN [h \in 1..HoursPerCycle |-> a] ELSE rates]] @@
     [BaseConfig EXCEPT
        !.schedule = [r \in Resources |-> Constant(0)],
        !.sim_hours = HoursPerCycle * SlotsPerHour + 1,
        !.arrivals = NumSpecimens - 1] :
     a \in {0, 1}, rates \in [1..HoursPerCycle -> {0, 1}]}

\* Model.setup with the arrival generators as components
InitArrivals ==
    /\ now = 0
    /\ cfg \in ArrivalConfigs
    /\ capacity = [r \in Resources |-> 1]
    /\ claimed = [r \in Resources |-> 0]
    /\ claims = <<>>
    /\ waitq = <<>>
    /\ sched = [r \in Resources |-> [day |-> 1, slot |-> 1, wake |-> 0]]
    /\ procs = [x \in {Generator(g) : g \in DOMAIN ArrivalGenerators} |->
                   [fn |-> "ArrivalGenerator", pc |-> 1, st |-> "generator",
                    wake |-> 0]]
    /\ ready = [i \in 1..Len(GeneratorOrder) |-> Generator(GeneratorOrder[i])]
               \o [i \in 1..Len(ResourceOrder) |->
                      Scheduler(ResourceOrder[i])]
    /\ stores = [x \in StoreNames |-> <<>>]
    /\ taken = [x \in Operators |-> NoItem]
    /\ batch = [x \in Batchers |-> <<>>]
    /\ dict = [x \in Collators |-> <<>>]
    /\ specimens = <<>>
    /\ wips = [k \in Wips |-> 0]
    /\ fatal = FALSE
    /\ NoServer

NextArrivals ==
    \/ \E g \in DOMAIN ArrivalGenerators : ArrivalGenerator_process(g)
    \/ \E g \in DOMAIN ArrivalGenerators : ComponentGenerator_process(g)
    \/ TickArrivals
    \/ \E r \in Resources : ResourceScheduler_process(r)
    \/ \E name \in Processes : Process_process(name)
    \/ \E c \in Components : Step(c)

SpecArrivals == InitArrivals /\ [][NextArrivals]_vars

\* the rate of generator g in the hour of time t
RateAt(g, t) == cfg.rates[g][((t \div SlotsPerHour) % HoursPerCycle) + 1]

\* C23: a Specimen is created only by a sub-generator that was started at
\* the beginning of the current hour, which the ArrivalGenerator does only
\* when the rate of that hour of the cycle is positive: none is created
\* in an hour whose rate is 0 and none by a sub-generator of an earlier
\* hour; with every rate of both generators 0 no Specimen is ever created.
C23_ArrivalsFollowRates ==
    /\ [][\A s \in (Len(specimens) + 1)..Len(specimens') :
             LET c == specimens'[s].generator
             IN  /\ c[3] <= now /\ now < c[3] + SlotsPerHour
                 /\ c[3] % SlotsPerHour = 0
                 /\ RateAt(c[2], now) > 0]_vars
    /\ []((\A g \in DOMAIN ArrivalGenerators :
              \A h \in 1..HoursPerCycle : cfg.rates[g][h] = 0)
          => specimens = <<>>)

\* C23 witness: a Specimen created in the second turn of the cycle of
\* rates by a generator that has an hour of rate 0
C23_Witness ==
    \E s \in 1..Len(specimens) :
        LET c == specimens[s].generator
        IN  /\ c[3] >= HoursPerCycle * SlotsPerHour
            /\ \E h \in 1..HoursPerCycle : cfg.rates[c[2]][h] = 0

\* C26: a Specimen of the non-cancer generator has priority URGENT,
\* PRIORITY or ROUTINE, and a Specimen of the cancer generator has
\* priority URGENT, PRIORITY or CANCER.
C26_PriorityByGenerator ==
    \A s \in 1..Len(specimens) :
        specimens[s].prio \in
            IF specimens[s].generator[2] = "Arrival Generator (non-cancer)"
            THEN {URGENT, PRIORITY, ROUTINE}
            ELSE {URGENT, PRIORITY, CANCER}


-----------------------------------------------------------------------------
(* The simulation server: restful/server.py, restful/redis.py, simulate.py *)
(* The request handlers and the RQ worker run in separate processes over   *)
(* one database, so every commit of a handler is a step of its own.  What  *)
(* a simulation computes is left out: a job returns a Report or raises.    *)

MaxScenarios == 2     \* rows of table scenarios
MaxReps == 1          \* largest num_reps of a request
MaxClock == 2         \* the wall clock stops advancing here

\* SQL NULL, Python None
NULL == -1

\* json.dumps(Report.from_model(model), default=serialiser)
Report == 1

\* SQL_INSERT_SCENARIO into SQL_CREATE_SCENARIOS: scenario_id is the next
\* row number, completed and results are NULL
SQL_INSERT_SCENARIO(analysis_id, created, num_reps, done_reps) ==
    Append(scenarios,
           [analysis_id |-> analysis_id, created |-> created,
            completed |-> NULL, num_reps |-> num_reps,
            done_reps |-> done_reps, results |-> NULL])

\* simulate.SQL_UPDATE_RESULT
SQL_UPDATE_RESULT(completed, results, scenario_id) ==
    [i \in DOMAIN scenarios |->
        IF i = scenario_id
        THEN [scenarios[i] EXCEPT !.completed = completed,
                                  !.results = results,
                                  !.done_reps = scenarios[i].num_reps]
        ELSE scenarios[i]]

\* server.new_scenario: insert the row, commit, enqueue the job
new_scenario(config) ==
    /\ scenarios' = SQL_INSERT_SCENARIO(config.analysis_id, config.created,
                                        config.num_reps, 0)
    /\ jobs' = Append(jobs, [scenario_id |-> Len(scenarios) + 1,
                             status |-> "queued"])

\* Config.from_workbook(wbook, sim_hours, num_reps), as the server calls it.
\* config.py defines from_excel only, which opens the workbook itself; the
\* call is taken to build the same Config from the opened workbook: created
\* is the time of parsing and analysis_id is None.
from_workbook(num_reps) ==
    [analysis_id |-> NULL, created |-> utcnow, num_reps |-> num_reps]

\* POST /scenarios/
new_scenario_rest ==
    /\ Len(scenarios) + Len(pending) < MaxScenarios
    /\ \E num_reps \in 1..MaxReps :
          new_scenario(from_workbook(num_reps))
    /\ UNCHANGED <<kernel, multis, pending, utcnow>>

\* POST /multi/ up to its loop: every config is parsed and the analysis is
\* inserted and committed.  The configs wait with the analysis_id that the
\* loop gives them.
new_multi_rest ==
    /\ pending = <<>>
    /\ \E n \in 1..(MaxScenarios - Len(scenarios)), num_reps \in 1..MaxReps :
          pending' = [i \in 1..n |->
                         [from_workbook(num_reps) EXCEPT
                             !.analysis_id = multis + 1]]
    /\ multis' = multis + 1
    /\ UNCHANGED <<kernel, scenarios, jobs, utcnow>>

\* POST /multi/, one turn of its loop: new_scenario(config)
new_multi_rest_loop ==
    /\ pending # <<>>
    /\ new_scenario(Head(pending))
    /\ pending' = Tail(pending)
    /\ UNCHANGED <<kernel, multis, utcnow>>

\* redis.main, Worker.work: the one worker takes the oldest queued job
Worker_work ==
    /\ \A j \in DOMAIN jobs : jobs[j].status # "started"
    /\ \E j \in DOMAIN jobs :
          /\ jobs[j].status = "queued"
          /\ \A k \in 1..(j - 1) : jobs[k].status # "queued"
          /\ jobs' = [jobs EXCEPT ![j].status = "started"]
    /\ UNCHANGED <<kernel, scenarios, multis, pending, utcnow>>

\* simulate.simulate in the worker.  Model(config) or model.run() raises
\* (the kernel's fatal) and the worker records the job as failed, or the
\* result is written and committed.
simulate(j) ==
    /\ j \in DOMAIN jobs
    /\ jobs[j].status = "started"
    /\ \E raised \in BOOLEAN :
          IF raised
          THEN /\ jobs' = [jobs EXCEPT ![j].status = "failed"]
               /\ UNCHANGED scenarios
          ELSE /\ scenarios' = SQL_UPDATE_RESULT(utcnow, Report,
                                                 jobs[j].scenario_id)
               /\ jobs' = [jobs EXCEPT ![j].status = "finished"]
    /\ UNCHANGED <<kernel, multis, pending, utcnow>>

\* time passes
Advance ==
    /\ utcnow < MaxClock
    /\ utcnow' = utcnow + 1
    /\ UNCHANGED <<kernel, scenarios, multis, jobs, pending>>

\* server.status with SQL_SELECT_SCENARIO; progress is the quotient
\* done_reps / num_reps, kept as the pair of its terms; None is <<>>
status(scenario_id) ==
    IF scenario_id \notin DOMAIN scenarios
    THEN <<>>
    ELSE LET res == scenarios[scenario_id]
             data == [scenario_id |-> scenario_id,
                      num_reps |-> res.num_reps,
                      progress |-> <<res.done_reps, res.num_reps>>,
                      created |-> res.created]
             completed == IF res.completed # NULL
                          THEN [completed |-> res.completed] ELSE <<>>
             analysis_id == IF res.analysis_id # NULL
                            THEN [analysis_id |-> res.analysis_id] ELSE <<>>
         IN  data @@ completed @@ analysis_id

\* server.results_scenario with SQL_SCENARIO_RESULTS
results_scenario(scenario_id) ==
    IF scenario_id \notin DOMAIN scenarios
    THEN NULL
    ELSE scenarios[scenario_id].results

\* the rows WHERE analysis_id = ?
Children(analysis_id) ==
    {i \in DOMAIN scenarios : scenarios[i].analysis_id = analysis_id}

RECURSIVE SUM(_, _)
SUM(ids, column) ==
    IF ids = {} THEN 0
    ELSE LET i == CHOOSE x \in ids : TRUE
         IN  scenarios[i][column] + SUM(ids \ {i}, column)

\* MIN and MAX skip NULL; over no value they are NULL
MIN(values) ==
    IF values \ {NULL} = {} THEN NULL
    ELSE CHOOSE v \in values \ {NULL} : \A w \in values \ {NULL} : v <= w

MAX(values) ==
    IF values \ {NULL} = {} THEN NULL
    ELSE CHOOSE v \in values \ {NULL} : \A w \in values \ {NULL} : v >= w

\* COUNT(column) counts the rows where the column is not NULL
COUNT(ids, column) ==
    Cardinality({i \in ids : scenarios[i][column] # NULL})

\* server.SQL_SELECT_MULTI: the one group of the rows of the analysis
SQL_SELECT_MULTI(analysis_id) ==
    LET ids == Children(analysis_id)
    IN  [analysis_id |-> analysis_id,
         scenario_ids |-> ids,
         created |-> MIN({scenarios[i].created : i \in ids}),
         completed |-> IF COUNT(ids, "completed") = Cardinality(ids)
                       THEN MAX({scenarios[i].completed : i \in ids})
                       ELSE NULL,
         progress |-> <<SUM(ids, "done_reps"), SUM(ids, "num_reps")>>]

\* server.status_multi; without a row fetchone() is None, and unpacking it
\* raises
status_multi(analysis_id) ==
    IF Children(analysis_id) = {}
    THEN [error |-> "TypeError"]
    ELSE LET res == SQL_SELECT_MULTI(analysis_id)
             ret == [analysis_id |-> analysis_id,
                     scenario_ids |-> res.scenario_ids,
                     created |-> res.created,
                     progress |-> res.progress]
         IN  IF res.completed # NULL
             THEN ret @@ [completed |-> res.completed]
             ELSE ret

InitServer == Setup({BaseConfig})

NextServer ==
    \/ new_scenario_rest
    \/ new_multi_rest
    \/ new_multi_rest_loop
    \/ Worker_work
    \/ \E j \in DOMAIN jobs : simulate(j)
    \/ Advance

\* the server and the worker keep running
SpecServer == InitServer /\ [][NextServer]_vars /\ WF_vars(NextServer)

\* C28: the analysis reports completed exactly when each of its scenarios
\* submitted so far has its completed time; never while the job of one of
\* them is queued or running; the time reported is the latest completion
\* time of its scenarios, and once reported it stays and keeps its value.
Reported(analysis_id) ==
    "completed" \in DOMAIN status_multi(analysis_id)

Running(scenario_id) ==
    \E j \in DOMAIN jobs : /\ jobs[j].scenario_id = scenario_id
                           /\ jobs[j].status \in {"queued", "started"}

Failed(scenario_id) ==
    \E j \in DOMAIN jobs : /\ jobs[j].scenario_id = scenario_id
                           /\ jobs[j].status = "failed"

ShownAsNotCompleted(scenario_id) ==
    /\ scenario_id \in DOMAIN scenarios
    /\ "completed" \notin DOMAIN status(scenario_id)
    /\ status(scenario_id).progress[1] = 0
    /\ results_scenario(scenario_id) = NULL

-----------------------------------------------------------------------------
(* One specimen of several blocks and several slides a block from          *)
(* reception to the end of labelling at one instant, through the two       *)
(* levels of collation after staining: batches of one; no scanning staff   *)

StainingConfigs ==
    {[BaseConfig EXCEPT
        !.schedule = [r \in Resources |->
                        IF r \in {"scanning_staff", "qc_staff",
                                  "histopathologist"}
                        THEN Constant(0) ELSE Constant(1)],
        !.priority = {URGENT, CANCER},
        !.cutup_type = {"Large specimens"},
        !.num_blocks = {MaxBlocks},
        !.num_slides = {MaxSlides}]}

InitStaining == Setup(StainingConfigs)

SpecStaining == InitStaining /\ [][NextProcessing]_vars

\* the bucket of a parent in a collator, empty when it has none
Bucket(name, key) ==
    IF key \in DOMAIN dict[name] THEN dict[name][key] ELSE <<>>

\* the step gives entity e to the operator of store `to` or adds it to the
\* store
Receives(to, e) ==
    \/ taken'[to] = e /\ taken[to] # e
    \/ /\ \E i \in 1..Len(stores'[to]) : stores'[to][i].item = e
       /\ \A i \in 1..Len(stores[to]) : stores[to][i].item # e

\* the parent has not been forwarded by the collator before: the stage
\* function behind the collators has not stamped its specimen, and a block
\* is not in the bucket of its specimen
NotForwardedYet(name, key) ==
    LET out == CollationProcesses[name].out_process
        end == CASE name = "collate.processing" -> "processing_end"
                 [] name \in {"collate.staining.slides",
                              "collate.staining.blocks"} -> "staining_end"
                 [] OTHER -> "scanning_end"
    IN  /\ specimens[key[2]].ts[end] = Unset
        /\ out \in Collators =>
              key \notin SeqToSet(Bucket(out, Parent(key)))

\* C31: a collator forwards a parent in the step that takes the n-th of
\* its children (n its counter, n >= 1) and in no other step, deletes the
\* bucket in that step, and has not forwarded the parent before; a bucket
\* holds fewer than n children, all of them distinct children of its
\* parent; no other step changes a bucket or forwards a parent.
C31_ParentForwardedAtLastChild ==
    /\ [](\A name \in Collators : \A key \in DOMAIN dict[name] :
            /\ Counter(name, key) >= 1 => Len(dict[name][key]) < Counter(name, key)
            /\ \A i \in 1..Len(dict[name][key]) :
                  /\ Parent(dict[name][key][i]) = key
                  /\ \A j \in 1..Len(dict[name][key]) :
                        dict[name][key][i] = dict[name][key][j] => i = j)
    /\ [][\A name \in Collators :
            LET out == CollationProcesses[name].out_process
                item == taken[name]
                key == Parent(item)
            IN  IF Current(Operator(name))
                THEN /\ Counter(name, key) >= 1
                     /\ Receives(out, key) <=>
                           Len(Bucket(name, key)) + 1 = Counter(name, key)
                     /\ Receives(out, key) =>
                           /\ key \notin DOMAIN dict'[name]
                           /\ NotForwardedYet(name, key)
                     /\ ~Receives(out, key) =>
                           /\ key \in DOMAIN dict'[name]
                           /\ dict'[name][key] = Append(Bucket(name, key), item)
                     /\ \A k \in DOMAIN dict[name] \ {key} :
                           /\ k \in DOMAIN dict'[name]
                           /\ dict'[name][k] = dict[name][k]
                     /\ \A k \in (DOMAIN dict'[name]) \ {key} : k \in DOMAIN dict[name]
                ELSE /\ dict'[name] = dict[name]
                     /\ \A s \in 1..Len(specimens), b \in 1..MaxBlocks :
                           /\ ~Receives(out, Specimen(s))
                           /\ ~Receives(out, Block(s, b))]_vars

\* a specimen of several blocks, each of several slides, has been
\* forwarded by both staining collators
C31_Witness ==
    \E s \in 1..Len(specimens) :
       /\ specimens[s].ts["staining_end"] # Unset
       /\ specimens[s].num_blocks >= 2
       /\ \A b \in 1..specimens[s].num_blocks :
             specimens[s].blocks[b].num_slides >= 2


-----------------------------------------------------------------------------
(* Claims about the DeliveryProcess loop *)

\* the pending requests of component c
RequestsOf(c) == {i \in 1..Len(waitq) : waitq[i].c = c}

\* the units component c holds or has asked for
Asked(c) ==
    Len(IF c \in DOMAIN claims THEN claims[c] ELSE <<>>)
        + Cardinality(RequestsOf(c))

\* the DeliveryProcess takes an entity in this step
Takes(name) == Current(Operator(name)) /\ Operator(name) \notin DOMAIN procs

\* C33: for each delivery a DeliveryProcess requests exactly one unit of
\* its runner, at the priority of the entity when that is a single item and
\* at ROUTINE when it is a Batch, whatever the priorities of the items of
\* the batch: the step that takes the entity either claims one unit of the
\* runner or puts one request of that priority among the requesters, and no
\* other step adds to what the DeliveryProcess holds or asks for.
C33_OneRunnerUnitAtEntityPriority ==
    /\ [](\A name \in Deliveries : Asked(Operator(name)) <= 1)
    /\ [][\A name \in Deliveries :
            LET self == Operator(name)
                runner == DeliveryProcesses[name].runner
                entity == taken[name]
                p == IF IsBatch(entity) THEN ROUTINE ELSE Prio(entity)
                w == [c |-> self, res |-> <<runner>>, priority |-> p]
            IN  IF Takes(name)
                THEN /\ Asked(self) = 0
                     /\ procs'[self].entity = entity
                     /\ IF claimed[runner] < capacity[runner]
                        THEN /\ claims'[self] = <<runner>>
                             /\ claimed'[runner] = claimed[runner] + 1
                             /\ waitq' = waitq
                        ELSE /\ self \notin DOMAIN claims'
                             /\ claimed' = claimed
                             /\ waitq' = InsertAt(waitq, WaitPos(waitq, p), w)
                ELSE /\ Asked(self)' <= Asked(self)
                     /\ \A i \in RequestsOf(self)' :
                           \E k \in RequestsOf(self) : waitq'[i] = waitq[k]]_vars

\* a DeliveryProcess waits for its runner with a batch that holds an item
\* which is not ROUTINE, and another one with a single item
C33_Witness ==
    /\ \E i \in 1..Len(waitq) :
          /\ waitq[i].c[1] = "P"
          /\ waitq[i].priority = ROUTINE
          /\ IsBatch(procs[waitq[i].c].entity)
          /\ \E k \in 1..Len(Items(procs[waitq[i].c].entity)) :
                Prio(Items(procs[waitq[i].c].entity)[k]) # ROUTINE
    /\ \E s \in 1..Len(specimens) :
          /\ specimens[s].prio = URGENT
          /\ specimens[s].ts["cutup_start"] # Unset


\* the items a delivery carries, in the order in which they are unloaded
Load(entity) == IF IsBatch(entity) THEN Items(entity) ELSE <<entity>>

\* the statement at which a delivery waits during the hold of out_duration
\* and during the hold of return_duration
OutHold == 3
ReturnHold(entity) == 4 + Len(Load(entity))

\* item.enter_sorted(out_queue, priority = item.prio) for the items from
\* the i-th on
RECURSIVE Unloaded(_, _, _, _)
Unloaded(m, out, load, i) ==
    IF i > Len(load) THEN m
    ELSE Unloaded(PutStoreSorted(m, out, load[i], Prio(load[i])), out, load,
                  i + 1)

\* entity e is in the store of an operator, in its hands, or in a stage
InSystem(e) ==
    \/ e \in DOMAIN procs
    \/ \E name \in Operators :
          \/ taken[name] = e
          \/ \E i \in 1..Len(stores[name]) : stores[name][i].item = e

\* C34: in each delivery the runner unit is held from its grant to the end
\* of the hold of return_duration that follows the hold of out_duration;
\* the items (those of a Batch in batch order, or the single entity) are
\* inserted into the input store of out_process at the end of the hold of
\* out_duration, each by enter_sorted with its own priority, and the runner
\* is released only at the end of the hold of return_duration.
C34_DeliveryHoldsRunnerThroughout ==
    /\ [](\A name \in Deliveries :
            LET self == Operator(name)
                runner == DeliveryProcesses[name].runner
            IN  IF self \in DOMAIN procs /\ procs[self].st # "requesting"
                THEN /\ self \in DOMAIN claims
                     /\ claims[self] = <<runner>>
                     /\ procs[self].pc <= OutHold
                          => \A i \in 1..Len(Load(procs[self].entity)) :
                                ~InSystem(Load(procs[self].entity)[i])
                ELSE self \notin DOMAIN claims)
    /\ [][\A name \in Deliveries :
            LET self == Operator(name)
                out == DeliveryProcesses[name].out_process
            IN  (/\ self \in DOMAIN procs
                 /\ self \in DOMAIN procs' => procs'[self] # procs[self])
                => LET entity == procs[self].entity IN
                   CASE procs[self].st = "requesting" ->
                          \* granted: the hold of out_duration is next
                          /\ procs'[self] = [procs[self] EXCEPT !.st = "ready"]
                          /\ stores'[out] = stores[out]
                     [] procs[self].st = "ready" ->
                          /\ procs'[self] = [procs[self] EXCEPT
                                                !.st = "holding",
                                                !.pc = OutHold]
                          /\ stores'[out] = stores[out]
                     [] procs[self].pc = OutHold ->
                          /\ procs'[self] = [procs[self] EXCEPT
                                                !.pc = ReturnHold(entity)]
                          /\ stores' = Unloaded(Machine, out, Load(entity), 1).stores
                          /\ taken' = Unloaded(Machine, out, Load(entity), 1).taken
                     [] OTHER ->
                          /\ procs[self].pc = ReturnHold(entity)
                          /\ self \notin DOMAIN procs'
                          /\ self \notin DOMAIN claims'
                          /\ stores'[out] = stores[out]]_vars

\* a batch of two has been unloaded after time has passed, and the delivery
\* still holds its runner
C34_Witness ==
    \E name \in Deliveries :
        LET self == Operator(name)
            out == DeliveryProcesses[name].out_process
        IN  /\ self \in DOMAIN procs
            /\ IsBatch(procs[self].entity)
            /\ Len(Load(procs[self].entity)) = 2
            /\ procs[self].pc = ReturnHold(procs[self].entity)
            /\ claims[self] = <<DeliveryProcesses[name].runner>>
            /\ InSystem(Load(procs[self].entity)[1])
            /\ InSystem(Load(procs[self].entity)[2])
            /\ now > 0


-----------------------------------------------------------------------------
(* Requests and releases of the stage functions *)

(* One specimen of large cut-up whose blocks are decalcified in the oven   *)
(* or in the bone station, through processing, microtomy and staining at   *)
(* one instant; no scanning staff                                          *)

PairedConfigs ==
    {[BaseConfig EXCEPT
        !.schedule = [r \in Resources |->
                        IF r \in {"scanning_staff", "qc_staff", "histopathologist"}
                        THEN Constant(0) ELSE Constant(1)],
        !.priority = {URGENT, CANCER},
        !.cutup_type = {"Large specimens"},
        !.decalc_type = {"decalc oven", "bone station"},
        !.num_blocks = {MaxBlocks},
        !.num_slides = {MaxSlides}]}

InitPaired == Setup(PairedConfigs)

SpecPaired == InitPaired /\ [][NextProcessing]_vars

\* every release of the function names resources held at that statement,
\* every release() finds something to release, and the component enters
\* itself into a store holding nothing
Paired(c, prog) ==
    \A k \in 1..Len(prog) :
        LET o == prog[k]
            held == HeldAfter(prog, 1, k - 1, <<>>)
        IN  /\ o.op = "release" => SeqToSet(o.res) \subseteq SeqToSet(held)
            /\ o.op = "release_all" => held # <<>>
            /\ (o.op \in {"enter", "enter_sorted"} /\ o.ent = c) => held = <<>>

\* C35: requests and releases are paired in every stage function and in
\* the DeliveryProcess loop: every release is executed while the calling
\* process holds what it releases, so that the release of a resource not
\* held never happens, and an entity that has been inserted into a store
\* holds no unit of any resource.
C35_ReleasesPaired ==
    /\ ~fatal
    /\ \A c \in DOMAIN procs :
          /\ Paired(c, Program(c, procs[c]))
          /\ (IF c \in DOMAIN claims THEN claims[c] ELSE <<>>) = HeldBy(c)
    /\ \A c \in DOMAIN claims : c \in DOMAIN procs
    /\ \A name \in Operators :
          /\ taken[name] \notin DOMAIN claims
          /\ \A i \in 1..Len(stores[name]) :
                stores[name][i].item \notin DOMAIN claims

\* the slides of a specimen decalcified in the oven have been stained, in
\* the regular machine or as megas, and collated
C35_Witness ==
    \E s \in 1..Len(specimens) :
        /\ specimens[s].data["decalc_type"] = "decalc oven"
        /\ specimens[s].ts["staining_end"] # Unset
        /\ claimed["staining_staff"] = 0


-----------------------------------------------------------------------------
(* Partial batches *)

\* nothing is scheduled and nothing is waited for
Quiet ==
    /\ ready = <<>>
    /\ waitq = <<>>
    /\ \A c \in DOMAIN procs : procs[c].st # "holding"
    /\ Len(specimens) = cfg.arrivals

\* a BatchingProcess keeps a partial batch while every resource is idle
Stranded(name) ==
    /\ batch[name] # <<>>
    /\ Quiet
    /\ \A r \in Resources : claimed[r] = 0 /\ capacity[r] >= 1

\* C36: a BatchingProcess forwards a batch only when it has taken
\* batch_size items, and nothing flushes a partial batch: an item of a
\* partial batch is in no store and in no stage, holds no resource, its
\* specimen is not completed, and it leaves the batch only in the step in
\* which the BatchingProcess takes the item that fills the batch; when no
\* further item arrives the batch stays as it is for the rest of the run,
\* with every resource idle.
C36_NoFlushOfPartialBatch ==
    /\ [](\A name \in Batchers :
            \A i \in 1..Len(batch[name]) :
                LET item == batch[name][i] IN
                /\ Len(batch[name]) < BatchSizeOf(name)
                /\ item \notin DOMAIN procs
                /\ item \notin DOMAIN claims
                /\ \A o \in Operators : taken[o] # item
                /\ \A st \in StoreNames :
                      \A k \in 1..Len(stores[st]) :
                          /\ stores[st][k].item # item
                          /\ IsBatch(stores[st][k].item)
                               => item \notin SeqToSet(Items(stores[st][k].item))
                /\ item[2] \notin CompletedSpecimens)
    /\ [][\A name \in Batchers :
            /\ IF Current(Operator(name))
               THEN IF Len(batch[name]) + 1 = BatchSizeOf(name)
                    THEN batch'[name] = <<>>
                    ELSE batch'[name] = Append(batch[name], taken[name])
               ELSE batch'[name] = batch[name]
            /\ Stranded(name) => Stranded(name)']_vars

\* the only specimen, or its only block, is kept in a batch that nothing
\* will fill, with one unit of every resource free
C36_Witness ==
    \E name \in Batchers :
        /\ Stranded(name)
        /\ BatchSizeOf(name) = 2
        /\ Len(batch[name]) = 1
        /\ cfg.arrivals = 1


-----------------------------------------------------------------------------
(* Reception with MaxCapacity units of booking-in staff and deliveries of   *)
(* single specimens or batches of one: specimens of two priorities; the    *)
(* staff of the later stages are never allocated                           *)

RunnerConfigs ==
    {[BaseConfig EXCEPT
        !.schedule = [r \in Resources |->
                        IF r = "booking_in_staff"
                        THEN Constant(MaxCapacity) ELSE Constant(0)],
        !.arrivals = NumSpecimens + 1,
        !.priority = {URGENT, CANCER},
        !.batch_sizes = [k \in BatchSizeKeys |-> 1]]}

InitRunner == Setup(RunnerConfigs)

SpecRunner == InitRunner /\ [][NextBooking]_vars

\* C37: a DeliveryProcess performs one delivery at a time: it never holds
\* more than one unit of its runner, and while a delivery is in progress
\* it has taken no further entity; it takes the next entity from its input
\* store only in a step after which the previous delivery is over and its
\* runner unit released, also when the runner has free units and entities
\* wait in the input store.
C37_OneDeliveryAtATime ==
    /\ [](\A name \in Deliveries :
            LET self == Operator(name) IN
            /\ self \in DOMAIN claims => Len(claims[self]) = 1
            /\ self \in DOMAIN procs
                 => /\ taken[name] = NoItem
                    /\ self \notin SeqToSet(ready) \/ procs[self].st = "ready")
    /\ [][\A name \in Deliveries :
            LET self == Operator(name) IN
            /\ (taken'[name] # NoItem /\ taken[name] = NoItem)
                 => /\ self \notin DOMAIN procs'
                    /\ self \notin DOMAIN claims'
            /\ (self \in DOMAIN procs /\ self \in DOMAIN procs')
                 => /\ procs'[self].entity = procs[self].entity
                    /\ Len(stores'[name]) >= Len(stores[name])]_vars

\* a delivery is in progress, a further entity waits in the input store,
\* and a unit of the runner is free
C37_Witness ==
    \E name \in Deliveries :
        LET self == Operator(name)
            runner == DeliveryProcesses[name].runner
        IN  /\ self \in DOMAIN procs
            /\ self \in DOMAIN claims
            /\ stores[name] # <<>>
            /\ capacity[runner] > 1
            /\ claimed[runner] < capacity[runner]


\* the entries of a store are in the order of their priorities
Sorted(q) == \A i \in 1..Len(q) : \A k \in i..Len(q) : q[i].priority <= q[k].priority

\* C38: once a DeliveryProcess has taken an entity, no entity that enters
\* its input store later is delivered before it, not even an URGENT single
\* item: the entity in the hands of the DeliveryProcess stays the same until
\* its delivery is over, and an entity of the input store stays in the
\* input store, in the order of the priorities, and none of its items
\* reaches out_process, until then.
C38_NoOvertakingOfTakenEntity ==
    /\ [](\A name \in Deliveries : Sorted(stores[name]))
    /\ [][\A name \in Deliveries :
            LET self == Operator(name)
                out == DeliveryProcesses[name].out_process
            IN  self \in DOMAIN procs
                => /\ self \in DOMAIN procs'
                     => procs'[self].entity = procs[self].entity
                   /\ \A k \in 1..Len(stores[name]) :
                         LET x == stores[name][k].item IN
                         /\ \/ \E j \in 1..Len(stores'[name]) :
                                  stores'[name][j].item = x
                            \/ /\ taken'[name] = x
                               /\ self \notin DOMAIN procs'
                               /\ k = 1
                         /\ \A i \in 1..Len(Load(x)) :
                               ~Receives(out, Load(x)[i])]_vars

\* a DeliveryProcess waits for its runner with a batch, and an URGENT
\* specimen that came later is alone at the head of its input store
C38_Witness ==
    \E name \in Deliveries :
        LET self == Operator(name) IN
        /\ self \in DOMAIN procs
        /\ procs[self].st = "requesting"
        /\ IsBatch(procs[self].entity)
        /\ stores[name] # <<>>
        /\ ~IsBatch(stores[name][1].item)
        /\ stores[name][1].priority = URGENT


-----------------------------------------------------------------------------
(* One specimen of large cut-up with any number of blocks and of slides    *)
(* per block from none to the bounds, through staining at one instant; no  *)
(* scanning staff                                                          *)

EmptyConfigs ==
    {[BaseConfig EXCEPT
        !.schedule = [r \in Resources |->
                        IF r \in {"scanning_staff", "qc_staff", "histopathologist"}
                        THEN Constant(0) ELSE Constant(1)],
        !.priority = {CANCER},
        !.cutup_type = {"Large specimens"},
        !.num_blocks = 0..MaxBlocks,
        !.num_slides = 0..MaxSlides]}

InitEmpty == Setup(EmptyConfigs)

SpecEmpty == InitEmpty /\ [][NextProcessing]_vars

\* entity e is in the input store of operator name, or in its hands
HeldAt(name, e) ==
    \/ taken[name] = e
    \/ \E i \in 1..Len(stores[name]) : stores[name][i].item = e

\* the specimens that left cut-up without a block and entered processing
Blockless ==
    {s \in 1..Len(specimens) :
        /\ specimens[s].num_blocks = 0
        /\ specimens[s].ts["processing_start"] # Unset}

\* specimen s owns a block of which microtomy made no slide
Slideless(s) ==
    \E j \in 1..Len(specimens[s].blocks) : specimens[s].blocks[j].num_slides = 0

\* C39: a specimen whose cut-up yields no block puts no block into
\* processing, is never forwarded by collate.processing, never reaches
\* post_processing and never enters completed_specimens, and the units it
\* added to the Processing WIP and the Total WIP are never removed;
\* likewise a specimen owning a block without slides is never forwarded by
\* the staining collators, and neither is that block.
C39_NothingToCollate ==
    /\ \A s \in 1..Len(specimens) :
          specimens[s].num_blocks = 0
            => /\ specimens[s].blocks = <<>>
               /\ \A name \in Operators :
                     \A i \in 1..Len(stores[name]) :
                         stores[name][i].item[1] = "B"
                           => stores[name][i].item[2] # s
               /\ \A c \in DOMAIN procs : c[1] = "B" => c[2] # s
               /\ ~HeldAt("post_processing", Specimen(s))
               /\ specimens[s].ts["processing_end"] = Unset
               /\ specimens[s].ts["microtomy_start"] = Unset
               /\ s \notin CompletedSpecimens
    /\ wips["in_processing"] >= Cardinality(Blockless)
    /\ wips["total"] >= Cardinality(Blockless)
    /\ \A s \in 1..Len(specimens) :
          Slideless(s)
            => /\ ~HeldAt("post_staining", Specimen(s))
               /\ specimens[s].ts["staining_end"] = Unset
               /\ s \notin CompletedSpecimens
               /\ \A j \in 1..Len(specimens[s].blocks) :
                     specimens[s].blocks[j].num_slides = 0
                       => /\ ~HeldAt("collate.staining.blocks", Block(s, j))
                          /\ Block(s, j) \notin
                               SeqToSet(Bucket("collate.staining.blocks",
                                               Specimen(s)))

\* the specimen without blocks has entered processing and nothing is left
\* to happen: it counts in the Processing WIP and in the Total WIP
C39_Witness ==
    /\ Blockless # {}
    /\ Quiet
    /\ wips["in_processing"] = 1
    /\ wips["total"] = 1
    /\ \A r \in Resources : claimed[r] = 0

====
